---- MODULE Spec2Model ----
(***************************************************************************)
(* Wallet ledger of the recycling-rewards backend (src/index.js).          *)
(*                                                                         *)
(* The Firestore collections are the state; every HTTP handler is split    *)
(* at its awaits on the store: a read outside db.runTransaction is one     *)
(* step, a db.runTransaction body is one step (the store serialises        *)
(* transactions on the documents they read), and a handler that is         *)
(* suspended between two steps is an element of the bag `inflight`.        *)
(*                                                                         *)
(* Strings the code inspects character by character (phone numbers, waste  *)
(* types, callback values) are sequences of one-character strings.         *)
(* Amounts and weights are integers.  pointsEarned is counted in fiftieths *)
(* of a point and co2Saved in halves of a kilogram, so that weight / 50    *)
(* and weight * 1.5 are exact.  serverTimestamp() fields and free-text     *)
(* fields (details) are not modelled: no handler reads them.               *)
(***************************************************************************)
EXTENDS Integers, Sequences, FiniteSets, Bags, TLC

VARIABLES
  users,                \* collection "users": userId -> document
  wallet_transactions,  \* collection "wallet_transactions", in creation order; the doc id is the index
  processed_requests,   \* collection "processed_requests": the set of document ids
  waste_prices,         \* collection "waste_prices": normalized type -> pricePerKg
  inflight,             \* bag of handler invocations suspended at an await
  response,             \* the last HTTP response sent
  argument,             \* the string a pure helper is called with, when one is called on its own
  returned,             \* what that call returned
  recycling_requests,   \* collection "recycling_requests": requestId -> document
  phone_numbers,        \* collection "phone_numbers": normalized phone -> document
  otp_verifications,    \* collection "otp_verifications": normalized phone -> document
  rateLimitMap,         \* the Map of the rate limiter: ip -> {count, resetTime}
  now,                  \* Date.now(), in units the model fixes below
  otp_history           \* history: per phone, what /verify-otp did with the OTP sent last

\* What the account handlers (OTP, phone binding, rate limiter) work on, besides users.
accounts == <<phone_numbers, otp_verifications, rateLimitMap, now, otp_history>>

vars == <<users, wallet_transactions, processed_requests, waste_prices, inflight, response,
         argument, returned, recycling_requests, accounts>>

\* The documents a wallet operation writes.
ledger == <<users, wallet_transactions, processed_requests>>

\* What no wallet handler writes: the price table, the call of a pure helper,
\* the recycling requests (written by the apps) and the account collections.
readOnly == <<waste_prices, argument, returned, recycling_requests, accounts>>

----------------------------------------------------------------------------
(* Bounds *)

\* Most documents ever stored in wallet_transactions.
MaxTx == 3

\* Most handler invocations suspended at an await at the same time.
MaxInflight == 2

----------------------------------------------------------------------------
(* Character strings *)

Whitespace == {" "}

UpperPairs ==
  << <<"a", "A">>, <<"c", "C">>, <<"i", "I">>, <<"l", "L">>, <<"n", "N">>,
     <<"p", "P">>, <<"s", "S">>, <<"t", "T">> >>

\* String.prototype.toUpperCase on one character
toUpperCase(c) ==
  IF \E i \in 1..Len(UpperPairs) : UpperPairs[i][1] = c
    THEN UpperPairs[CHOOSE i \in 1..Len(UpperPairs) : UpperPairs[i][1] = c][2]
    ELSE c

\* String.prototype.toLowerCase on one character
toLowerCase(c) ==
  IF \E i \in 1..Len(UpperPairs) : UpperPairs[i][2] = c
    THEN UpperPairs[CHOOSE i \in 1..Len(UpperPairs) : UpperPairs[i][2] = c][1]
    ELSE c

RECURSIVE trimStart(_)
trimStart(s) ==
  IF s # <<>> /\ Head(s) \in Whitespace THEN trimStart(Tail(s)) ELSE s

RECURSIVE trimEnd(_)
trimEnd(s) ==
  IF s # <<>> /\ s[Len(s)] \in Whitespace THEN trimEnd(SubSeq(s, 1, Len(s) - 1)) ELSE s

\* String.prototype.trim
trim(s) == trimEnd(trimStart(s))

\* String.prototype.startsWith
startsWith(s, p) == Len(s) >= Len(p) /\ SubSeq(s, 1, Len(p)) = p

\* String.prototype.endsWith
endsWith(s, p) == Len(s) >= Len(p) /\ SubSeq(s, Len(s) - Len(p) + 1, Len(s)) = p

\* String.prototype.substring(n) / slice(n) for 0 <= n
substring(s, n) == SubSeq(s, n + 1, Len(s))

\* str.replace(/\s+/g, "")
removeWhitespace(s) == SelectSeq(s, LAMBDA c : c \notin Whitespace)

Digits == <<"0", "1", "2", "3", "4", "5", "6", "7", "8", "9">>

DigitValue(c) == (CHOOSE i \in 1..Len(Digits) : Digits[i] = c) - 1

IsDigit(c) == \E i \in 1..Len(Digits) : Digits[i] = c

NaN == "NaN"

RECURSIVE parseDigits(_, _)
parseDigits(s, acc) ==
  IF s = <<>> \/ ~IsDigit(Head(s)) THEN acc
  ELSE parseDigits(Tail(s), acc * 10 + DigitValue(Head(s)))

\* parseFloat on a string of decimal digits (the longest numeric prefix; NaN without one)
parseFloat(s) ==
  LET t == trimStart(s)
  IN IF t = <<>> \/ ~IsDigit(Head(t)) THEN NaN ELSE parseDigits(t, 0)

\* Math.abs
abs(n) == IF n < 0 THEN -n ELSE n

Has(doc, field) == field \in DOMAIN doc

----------------------------------------------------------------------------
(* Pure helpers of the service *)

normalizeKenyanNumber(input) ==
  LET n0 == removeWhitespace(trim(input))
      number == IF startsWith(n0, <<"+">>) THEN substring(n0, 1) ELSE n0
  IN IF startsWith(number, <<"2", "5", "4">>) /\ Len(number) = 12 THEN number
     ELSE IF startsWith(number, <<"0">>) /\ Len(number) = 10
       THEN <<"2", "5", "4">> \o substring(number, 1)
     ELSE IF (startsWith(number, <<"7">>) \/ startsWith(number, <<"1">>)) /\ Len(number) = 9
       THEN <<"2", "5", "4">> \o number
     ELSE number

normalizeWasteType(str) ==
  IF str = <<>> THEN <<>>
  ELSE LET t == trim(str)
           first == IF t = <<>> THEN <<>> ELSE <<toUpperCase(t[1])>>
           rest == [i \in 1..(Len(t) - 1) |-> toLowerCase(t[i + 1])]
           formatted == first \o rest
       IN IF endsWith(formatted, <<"s">>) THEN formatted ELSE formatted \o <<"s">>

----------------------------------------------------------------------------
(* Requests the model sends *)

UserIds == {"u1", "ghost"}

\* Users that have a document in "users" (created by the sign-up flow, with no wallet fields yet).
RegisteredUsers == {"u1"}

Plastics == <<"P", "l", "a", "s", "t", "i", "c", "s">>

Tins == <<"T", "i", "n", "s">>

\* amounts posted to /withdraw
WithdrawAmounts == {0, 2}

PhoneA == <<"2", "5", "4", "7", "0", "0", "0", "0", "0", "0", "0", "1">>

PhoneB == <<"2", "5", "4", "7", "0", "0", "0", "0", "0", "0", "0", "2">>

B2CBody(user_id, phone, amount) == [user_id |-> user_id, phone |-> phone, amount |-> amount]

\* The bodies posted to /b2c: two amounts for one phone, a second phone in its
\* local form, and bodies the schema or the transaction turns away.
B2CBodies ==
  { B2CBody("u1", PhoneA, 1),
    B2CBody("u1", PhoneA, 2),
    B2CBody("u1", <<"0", "7", "0", "0", "0", "0", "0", "0", "0", "2">>, 2),
    B2CBody("u1", PhoneA, 0),
    B2CBody("u1", <<"0", "7">>, 1),
    B2CBody("ghost", PhoneA, 1) }

Response(status, body) == [status |-> status, body |-> body]

NoResponse == Response(0, "none")

NewUser == [walletBalance |-> 0, recycledWeight |-> 0, pointsEarned |-> 0, co2Saved |-> 0]

\* userDoc.data().walletBalance || 0
walletBalance(u) == users[u].walletBalance

InflightCount == BagCardinality(inflight)

Suspend(call) == inflight' = inflight (+) SetToBag({call})

Resume(call) == inflight (-) SetToBag({call})

----------------------------------------------------------------------------
(* POST /withdraw *)

\* WithdrawTx logging the amount with the wrong sign
WithdrawTxUnsigned(userId, amount) ==
  [userId |-> userId, type |-> "Withdraw", amount |-> amount, status |-> "completed"]

WithdrawTx(userId, amount) ==
  [userId |-> userId, type |-> "Withdraw", amount |-> -amount, status |-> "completed"]

\* Withdraw without the comparison of amount with the balance
WithdrawUnchecked(userId, amount) ==
  IF ~(amount > 0)
    THEN /\ response' = Response(400, "Number must be greater than 0")
         /\ UNCHANGED <<ledger, readOnly, inflight>>
  ELSE IF userId \notin DOMAIN users
    THEN /\ response' = Response(500, "User not found")
         /\ UNCHANGED <<ledger, readOnly, inflight>>
  ELSE /\ Len(wallet_transactions) < MaxTx
       /\ users' = [users EXCEPT ![userId].walletBalance = walletBalance(userId) - amount]
       /\ wallet_transactions' =
            Append(wallet_transactions,
                   [userId |-> userId, type |-> "Withdraw", amount |-> -amount,
                    status |-> "completed"])
       /\ response' = Response(200, "success")
       /\ UNCHANGED <<processed_requests, readOnly, inflight>>

Withdraw(userId, amount) ==
  IF ~(amount > 0)
    THEN /\ response' = Response(400, "Number must be greater than 0")
         /\ UNCHANGED <<ledger, readOnly, inflight>>
  ELSE IF userId \notin DOMAIN users
    THEN /\ response' = Response(500, "User not found")
         /\ UNCHANGED <<ledger, readOnly, inflight>>
  ELSE IF amount > walletBalance(userId)
    THEN /\ response' = Response(500, "Insufficient balance")
         /\ UNCHANGED <<ledger, readOnly, inflight>>
  ELSE /\ Len(wallet_transactions) < MaxTx
       /\ users' = [users EXCEPT ![userId].walletBalance = walletBalance(userId) - amount]
       /\ wallet_transactions' = Append(wallet_transactions, WithdrawTx(userId, amount))
       /\ response' = Response(200, "success")
       /\ UNCHANGED <<processed_requests, readOnly, inflight>>

----------------------------------------------------------------------------
(* POST /b2c *)

B2CTx(user_id, normalizedPhone, amount) ==
  [userId |-> user_id, type |-> "Withdraw", amount |-> -amount, status |-> "pending",
   method |-> "B2C", phone |-> normalizedPhone]

\* B2C without the comparison of amount with the balance
B2CUnchecked(user_id, phone, amount) ==
  IF Len(phone) < 10
    THEN /\ response' = Response(400, "String must contain at least 10 character(s)")
         /\ UNCHANGED <<ledger, readOnly, inflight>>
  ELSE IF ~(amount > 0)
    THEN /\ response' = Response(400, "Number must be greater than 0")
         /\ UNCHANGED <<ledger, readOnly, inflight>>
  ELSE IF user_id \notin DOMAIN users
    THEN /\ response' = Response(500, "User not found")
         /\ UNCHANGED <<ledger, readOnly, inflight>>
  ELSE /\ Len(wallet_transactions) < MaxTx
       /\ users' = [users EXCEPT ![user_id].walletBalance = walletBalance(user_id) - amount]
       /\ wallet_transactions' =
            Append(wallet_transactions, B2CTx(user_id, normalizeKenyanNumber(phone), amount))
       /\ response' = Response(200, "Wallet deducted. MPESA payout initiated.")
       /\ UNCHANGED <<processed_requests, readOnly, inflight>>

\* The payout service is called after the transaction has committed; its reply
\* is only copied into the response.
B2C(user_id, phone, amount) ==
  IF Len(phone) < 10
    THEN /\ response' = Response(400, "String must contain at least 10 character(s)")
         /\ UNCHANGED <<ledger, readOnly, inflight>>
  ELSE IF ~(amount > 0)
    THEN /\ response' = Response(400, "Number must be greater than 0")
         /\ UNCHANGED <<ledger, readOnly, inflight>>
  ELSE IF user_id \notin DOMAIN users
    THEN /\ response' = Response(500, "User not found")
         /\ UNCHANGED <<ledger, readOnly, inflight>>
  ELSE IF amount > walletBalance(user_id)
    THEN /\ response' = Response(500, "Insufficient balance")
         /\ UNCHANGED <<ledger, readOnly, inflight>>
  ELSE /\ Len(wallet_transactions) < MaxTx
       /\ users' = [users EXCEPT ![user_id].walletBalance = walletBalance(user_id) - amount]
       /\ wallet_transactions' =
            Append(wallet_transactions, B2CTx(user_id, normalizeKenyanNumber(phone), amount))
       /\ response' = Response(200, "Wallet deducted. MPESA payout initiated.")
       /\ UNCHANGED <<processed_requests, readOnly, inflight>>

----------------------------------------------------------------------------
(* POST /b2c/result *)

Param(key, value) == [Key |-> key, Value |-> value]

ResultBody(resultCode, parameters) ==
  [Result |-> [ResultCode |-> resultCode,
               ResultParameters |-> [ResultParameter |-> parameters]]]

Tel(phone) == <<"t", "e", "l", ":">> \o phone

AmountValues == << <<"1">>, <<"2">> >>

\* The payloads the gateway (or anybody else) posts: well-formed results for
\* both phones, both amounts, success and failure, and the malformed shapes.
CallbackBodies ==
  << ResultBody(0, <<Param("ReceiverPartyPublicName", Tel(PhoneA)), Param("TransactionAmount", AmountValues[1])>>),
     ResultBody(0, <<Param("ReceiverPartyPublicName", Tel(PhoneA)), Param("TransactionAmount", AmountValues[2])>>),
     ResultBody(1, <<Param("ReceiverPartyPublicName", Tel(PhoneA)), Param("TransactionAmount", AmountValues[1])>>),
     ResultBody(1, <<Param("ReceiverPartyPublicName", Tel(PhoneA)), Param("TransactionAmount", AmountValues[2])>>),
     ResultBody(0, <<Param("TransactionAmount", AmountValues[1]), Param("ReceiverPartyPublicName", Tel(PhoneB))>>),
     ResultBody(1, <<Param("TransactionAmount", AmountValues[2]), Param("ReceiverPartyPublicName", Tel(PhoneB))>>),
     ResultBody(0, <<Param("TransactionAmount", AmountValues[1])>>),
     ResultBody(0, <<Param("ReceiverPartyPublicName", Tel(PhoneA))>>),
     [Result |-> [ResultCode |-> 0, ResultParameters |-> [Other |-> 0]]],
     [Result |-> [ResultCode |-> 0]],
     [Other |-> 0] >>

\* params.find(p => p.Key === key): the index of the first such parameter, 0 for undefined
find(params, key) ==
  IF \E i \in 1..Len(params) : params[i].Key = key
    THEN CHOOSE i \in 1..Len(params) :
           /\ params[i].Key = key
           /\ \A j \in 1..(i - 1) : params[j].Key # key
    ELSE 0

\* stripTel leaving the tel: prefix in place
stripTelKept(value) == value

\* value.replace(/^tel:/, "")
stripTel(value) ==
  IF startsWith(value, <<"t", "e", "l", ":">>) THEN substring(value, 4) ELSE value

\* PendingWithdrawals without the status == pending condition
PendingWithdrawalsAnyStatus(phoneNumber) ==
  { d \in DOMAIN wallet_transactions :
      /\ wallet_transactions[d].type = "Withdraw"
      /\ Has(wallet_transactions[d], "phone")
      /\ wallet_transactions[d].phone = phoneNumber }

\* where type == Withdraw, status == pending, phone == phoneNumber
PendingWithdrawals(phoneNumber) ==
  { d \in DOMAIN wallet_transactions :
      /\ wallet_transactions[d].type = "Withdraw"
      /\ wallet_transactions[d].status = "pending"
      /\ Has(wallet_transactions[d], "phone")
      /\ wallet_transactions[d].phone = phoneNumber }

\* Update replacing the document by the named fields (t.set in place of t.update)
UpdateReplacing(doc, fields) == fields

\* t.update(ref, fields): the named fields are set, the others kept
Update(doc, fields) == fields @@ doc

\* RefundTx without the link to the withdrawal it refunds
RefundTxUnlinked(tx, doc, phoneNumber) ==
  [userId |-> tx.userId, type |-> "Refund", amount |-> abs(tx.amount), relatedTo |-> 0,
   phone |-> phoneNumber, status |-> "completed", reason |-> "M-Pesa B2C failed"]

\* RefundTx logging the withdrawal's signed amount (Math.abs forgotten)
RefundTxSigned(tx, doc, phoneNumber) ==
  [userId |-> tx.userId, type |-> "Refund", amount |-> tx.amount, relatedTo |-> doc,
   phone |-> phoneNumber, status |-> "completed", reason |-> "M-Pesa B2C failed"]

RefundTx(tx, doc, phoneNumber) ==
  [userId |-> tx.userId, type |-> "Refund", amount |-> abs(tx.amount), relatedTo |-> doc,
   phone |-> phoneNumber, status |-> "completed", reason |-> "M-Pesa B2C failed"]

B2CResultCall(doc, tx, phoneNumber, callbackAmount, result) ==
  [op |-> "b2cResult", doc |-> doc, tx |-> tx, phoneNumber |-> phoneNumber,
   callbackAmount |-> callbackAmount, result |-> result]

\* B2CResult taking the first pending withdrawal of the phone, whatever its amount
B2CResultAnyAmount(body) ==
  IF ~Has(body, "Result") \/ ~Has(body.Result, "ResultParameters")
    THEN /\ response' = Response(400, "Missing result data")
         /\ UNCHANGED <<ledger, readOnly, inflight>>
  ELSE IF ~Has(body.Result.ResultParameters, "ResultParameter")
    THEN /\ response' = Response(500, "Internal server error")
         /\ UNCHANGED <<ledger, readOnly, inflight>>
  ELSE
    LET result == body.Result
        params == result.ResultParameters.ResultParameter
        phoneParam == find(params, "ReceiverPartyPublicName")
        amountParam == find(params, "TransactionAmount")
    IN IF phoneParam = 0 \/ amountParam = 0
         THEN /\ response' = Response(400, "Missing necessary parameters")
              /\ UNCHANGED <<ledger, readOnly, inflight>>
       ELSE
         LET phoneNumber == stripTel(params[phoneParam].Value)
             callbackAmount == parseFloat(params[amountParam].Value)
             snapshot == PendingWithdrawals(phoneNumber)
         IN IF snapshot = {}
              THEN /\ response' = Response(200, "No matching transaction found")
                   /\ UNCHANGED <<ledger, readOnly, inflight>>
            ELSE /\ InflightCount < MaxInflight
                 /\ \E doc \in snapshot :
                      Suspend(B2CResultCall(doc, wallet_transactions[doc], phoneNumber,
                                            callbackAmount, result))
                 /\ UNCHANGED <<ledger, readOnly, response>>

\* The handler up to the end of its query.  The loop over snapshot.docs stops at
\* the first document whose amount matches; document ids are generated at
\* random and the query has no orderBy, so which match comes first is not fixed.
B2CResult(body) ==
  IF ~Has(body, "Result") \/ ~Has(body.Result, "ResultParameters")
    THEN /\ response' = Response(400, "Missing result data")
         /\ UNCHANGED <<ledger, readOnly, inflight>>
  ELSE IF ~Has(body.Result.ResultParameters, "ResultParameter")
    THEN /\ response' = Response(500, "Internal server error")
         /\ UNCHANGED <<ledger, readOnly, inflight>>
  ELSE
    LET result == body.Result
        params == result.ResultParameters.ResultParameter
        phoneParam == find(params, "ReceiverPartyPublicName")
        amountParam == find(params, "TransactionAmount")
    IN IF phoneParam = 0 \/ amountParam = 0
         THEN /\ response' = Response(400, "Missing necessary parameters")
              /\ UNCHANGED <<ledger, readOnly, inflight>>
       ELSE
         LET phoneNumber == stripTel(params[phoneParam].Value)
             callbackAmount == parseFloat(params[amountParam].Value)
             snapshot == PendingWithdrawals(phoneNumber)
             matching == { d \in snapshot : abs(wallet_transactions[d].amount) = callbackAmount }
         IN IF snapshot = {}
              THEN /\ response' = Response(200, "No matching transaction found")
                   /\ UNCHANGED <<ledger, readOnly, inflight>>
            ELSE IF matching = {}
              THEN /\ response' = Response(200, "B2C result processed")
                   /\ UNCHANGED <<ledger, readOnly, inflight>>
            ELSE /\ InflightCount < MaxInflight
                 /\ \E doc \in matching :
                      Suspend(B2CResultCall(doc, wallet_transactions[doc], phoneNumber,
                                            callbackAmount, result))
                 /\ UNCHANGED <<ledger, readOnly, response>>

\* B2CResultResolve refunding without marking the withdrawal failed
B2CResultResolveKeepsPending(call) ==
  /\ call.op = "b2cResult"
  /\ IF call.result.ResultCode = 0
       THEN /\ wallet_transactions' =
                 [wallet_transactions EXCEPT
                    ![call.doc] = Update(@, [status |-> "completed", mpesaMeta |-> call.result])]
            /\ UNCHANGED users
       ELSE /\ Len(wallet_transactions) < MaxTx
            /\ users' = [users EXCEPT ![call.tx.userId].walletBalance =
                                        walletBalance(call.tx.userId) + abs(call.tx.amount)]
            /\ wallet_transactions' =
                 Append(wallet_transactions, RefundTx(call.tx, call.doc, call.phoneNumber))
  /\ inflight' = Resume(call)
  /\ response' = Response(200, "B2C result processed")
  /\ UNCHANGED <<processed_requests, readOnly>>

\* B2CResultResolve refunding the withdrawal's signed amount (Math.abs forgotten)
B2CResultResolveSignedRefund(call) ==
  /\ call.op = "b2cResult"
  /\ IF call.result.ResultCode = 0
       THEN /\ wallet_transactions' =
                 [wallet_transactions EXCEPT
                    ![call.doc] = Update(@, [status |-> "completed", mpesaMeta |-> call.result])]
            /\ UNCHANGED users
       ELSE /\ Len(wallet_transactions) < MaxTx
            /\ users' = [users EXCEPT ![call.tx.userId].walletBalance =
                                        walletBalance(call.tx.userId) + call.tx.amount]
            /\ wallet_transactions' =
                 Append([wallet_transactions EXCEPT
                           ![call.doc] = Update(@, [status |-> "failed", mpesaMeta |-> call.result])],
                        RefundTx(call.tx, call.doc, call.phoneNumber))
  /\ inflight' = Resume(call)
  /\ response' = Response(200, "B2C result processed")
  /\ UNCHANGED <<processed_requests, readOnly>>

\* B2CResultResolve refunding some user, not the owner of the withdrawal
B2CResultResolveRefundingAnyUser(call) ==
  /\ call.op = "b2cResult"
  /\ IF call.result.ResultCode = 0
       THEN /\ wallet_transactions' =
                 [wallet_transactions EXCEPT
                    ![call.doc] = Update(@, [status |-> "completed", mpesaMeta |-> call.result])]
            /\ UNCHANGED users
       ELSE /\ Len(wallet_transactions) < MaxTx
            /\ \E u \in DOMAIN users :
                 users' = [users EXCEPT ![u].walletBalance =
                                          walletBalance(u) + abs(call.tx.amount)]
            /\ wallet_transactions' =
                 Append([wallet_transactions EXCEPT
                           ![call.doc] = Update(@, [status |-> "failed", mpesaMeta |-> call.result])],
                        RefundTx(call.tx, call.doc, call.phoneNumber))
  /\ inflight' = Resume(call)
  /\ response' = Response(200, "B2C result processed")
  /\ UNCHANGED <<processed_requests, readOnly>>

\* The db.runTransaction of the matched document, and the response.  The
\* transaction reads the user only; the matched document is updated as it was
\* in the snapshot.
B2CResultResolve(call) ==
  /\ call.op = "b2cResult"
  /\ IF call.result.ResultCode = 0
       THEN /\ wallet_transactions' =
                 [wallet_transactions EXCEPT
                    ![call.doc] = Update(@, [status |-> "completed", mpesaMeta |-> call.result])]
            /\ UNCHANGED users
       ELSE /\ Len(wallet_transactions) < MaxTx
            /\ users' = [users EXCEPT ![call.tx.userId].walletBalance =
                                        walletBalance(call.tx.userId) + abs(call.tx.amount)]
            /\ wallet_transactions' =
                 Append([wallet_transactions EXCEPT
                           ![call.doc] = Update(@, [status |-> "failed", mpesaMeta |-> call.result])],
                        RefundTx(call.tx, call.doc, call.phoneNumber))
  /\ inflight' = Resume(call)
  /\ response' = Response(200, "B2C result processed")
  /\ UNCHANGED <<processed_requests, readOnly>>

----------------------------------------------------------------------------
(* POST /request-completed *)

CompletionBody(beforeStatus, afterStatus, weight, userId, wasteType, requestId) ==
  [before |-> [status |-> beforeStatus],
   after |-> [status |-> afterStatus, weight |-> weight, userId |-> userId, wasteType |-> wasteType],
   requestId |-> requestId]

\* The bodies posted to /request-completed that have before, after and
\* requestId: completions that can be credited
\* (a positive and a negative weight), completions that fail later (no price for
\* the type, no such user), and bodies the guard turns away.
CompletionBodies ==
  { CompletionBody("accepted", "completed", 1, "u1", <<"p", "l", "a", "s", "t", "i", "c">>, "r1"),
    CompletionBody("accepted", "completed", -1, "u1", <<"p", "l", "a", "s", "t", "i", "c">>, "r2"),
    CompletionBody("accepted", "completed", 1, "u1", <<" ", "T", "I", "N">>, "r1"),
    CompletionBody("accepted", "completed", 1, "ghost", <<"P", "L", "A", "S", "T", "I", "C", "S", " ">>, "r2"),
    CompletionBody("completed", "completed", 1, "u1", <<"p", "l", "a", "s", "t", "i", "c">>, "r1"),
    CompletionBody("pending", "accepted", 1, "u1", <<"p", "l", "a", "s", "t", "i", "c">>, "r1"),
    CompletionBody("accepted", "completed", 0, "u1", <<"p", "l", "a", "s", "t", "i", "c">>, "r1"),
    CompletionBody("accepted", "completed", 1, "", <<"p", "l", "a", "s", "t", "i", "c">>, "r1"),
    CompletionBody("accepted", "completed", 1, "u1", <<>>, "r1") }

\* Bodies without one of the three properties the handler destructures.
MalformedCompletionBodies ==
  { [after |-> [status |-> "completed", weight |-> 1, userId |-> "u1",
                wasteType |-> <<"p", "l", "a", "s", "t", "i", "c">>],
     requestId |-> "r1"],
    [before |-> [status |-> "accepted"], requestId |-> "r1"],
    [before |-> [status |-> "accepted"],
     after |-> [status |-> "completed", weight |-> 1, userId |-> "u1",
                wasteType |-> <<"p", "l", "a", "s", "t", "i", "c">>]] }

\* The guard expression throws a TypeError: before is undefined, or after is
\* undefined and before.status !== "completed" did not end the evaluation.
CompletionGuardThrows(body) ==
  \/ ~Has(body, "before")
  \/ body.before.status # "completed" /\ ~Has(body, "after")

TypeErrorResponse == Response(500, "Cannot read properties of undefined (reading 'status')")

\* processedRequestsRef.doc(undefined) throws
DocumentPathResponse ==
  Response(500, "Value for argument \"documentPath\" is not a valid resource path")

\* CompletionGuard without the test of before.status
CompletionGuardAnyBefore(before, after) ==
  /\ after.status = "completed"
  /\ Has(after, "weight") /\ after.weight # 0
  /\ Has(after, "userId") /\ after.userId # ""
  /\ Has(after, "wasteType") /\ after.wasteType # <<>>

CompletionGuard(before, after) ==
  /\ before.status # "completed"
  /\ after.status = "completed"
  /\ Has(after, "weight") /\ after.weight # 0
  /\ Has(after, "userId") /\ after.userId # ""
  /\ Has(after, "wasteType") /\ after.wasteType # <<>>

RequestCompletedCall(userId, weight, normalized, requestId, amount) ==
  [op |-> "requestCompleted", userId |-> userId, weight |-> weight,
   normalized |-> normalized, requestId |-> requestId, amount |-> amount]

\* CreditTx logging the weight where the amount is due
CreditTxByWeight(call) ==
  [userId |-> call.userId, type |-> "Recycle Credit", amount |-> call.weight,
   wasteType |-> call.normalized, weight |-> call.weight,
   relatedRequest |-> call.requestId, status |-> "completed"]

CreditTx(call) ==
  [userId |-> call.userId, type |-> "Recycle Credit", amount |-> call.amount,
   wasteType |-> call.normalized, weight |-> call.weight,
   relatedRequest |-> call.requestId, status |-> "completed"]

\* RequestCompleted without the read of processed_requests
RequestCompletedNoDedup(body) ==
  IF CompletionGuardThrows(body)
    THEN /\ response' = TypeErrorResponse
         /\ UNCHANGED <<ledger, readOnly, inflight>>
  ELSE IF ~Has(body, "after") \/ ~CompletionGuard(body.before, body.after)
    THEN /\ response' = Response(200, "No update needed")
         /\ UNCHANGED <<ledger, readOnly, inflight>>
  ELSE IF ~Has(body, "requestId")
    THEN /\ response' = DocumentPathResponse
         /\ UNCHANGED <<ledger, readOnly, inflight>>
  ELSE IF normalizeWasteType(body.after.wasteType) \notin DOMAIN waste_prices
    THEN /\ response' = Response(400, "Waste price not found")
         /\ UNCHANGED <<ledger, readOnly, inflight>>
  ELSE
    LET normalized == normalizeWasteType(body.after.wasteType)
        amount == body.after.weight * waste_prices[normalized]
    IN /\ InflightCount < MaxInflight
       /\ Suspend(RequestCompletedCall(body.after.userId, body.after.weight, normalized,
                                       body.requestId, amount))
       /\ UNCHANGED <<ledger, readOnly, response>>

\* RequestCompleted reading waste_prices before processed_requests
RequestCompletedPriceFirst(body) ==
  IF CompletionGuardThrows(body)
    THEN /\ response' = TypeErrorResponse
         /\ UNCHANGED <<ledger, readOnly, inflight>>
  ELSE IF ~Has(body, "after") \/ ~CompletionGuard(body.before, body.after)
    THEN /\ response' = Response(200, "No update needed")
         /\ UNCHANGED <<ledger, readOnly, inflight>>
  ELSE IF normalizeWasteType(body.after.wasteType) \notin DOMAIN waste_prices
    THEN /\ response' = Response(400, "Waste price not found")
         /\ UNCHANGED <<ledger, readOnly, inflight>>
  ELSE IF ~Has(body, "requestId")
    THEN /\ response' = DocumentPathResponse
         /\ UNCHANGED <<ledger, readOnly, inflight>>
  ELSE IF body.requestId \in processed_requests
    THEN /\ response' = Response(200, "Already processed")
         /\ UNCHANGED <<ledger, readOnly, inflight>>
  ELSE
    LET normalized == normalizeWasteType(body.after.wasteType)
        pricePerKg == waste_prices[normalized]
        amount == body.after.weight * pricePerKg
    IN /\ InflightCount < MaxInflight
       /\ Suspend(RequestCompletedCall(body.after.userId, body.after.weight, normalized,
                                       body.requestId, amount))
       /\ UNCHANGED <<ledger, readOnly, response>>

\* The handler up to the start of its db.runTransaction: the guard, the read of
\* processed_requests and the read of waste_prices.  No handler writes
\* waste_prices, so the two reads are one step.
RequestCompleted(body) ==
  IF CompletionGuardThrows(body)
    THEN /\ response' = TypeErrorResponse
         /\ UNCHANGED <<ledger, readOnly, inflight>>
  ELSE IF ~Has(body, "after") \/ ~CompletionGuard(body.before, body.after)
    THEN /\ response' = Response(200, "No update needed")
         /\ UNCHANGED <<ledger, readOnly, inflight>>
  ELSE IF ~Has(body, "requestId")
    THEN /\ response' = DocumentPathResponse
         /\ UNCHANGED <<ledger, readOnly, inflight>>
  ELSE IF body.requestId \in processed_requests
    THEN /\ response' = Response(200, "Already processed")
         /\ UNCHANGED <<ledger, readOnly, inflight>>
  ELSE IF normalizeWasteType(body.after.wasteType) \notin DOMAIN waste_prices
    THEN /\ response' = Response(400, "Waste price not found")
         /\ UNCHANGED <<ledger, readOnly, inflight>>
  ELSE
    LET normalized == normalizeWasteType(body.after.wasteType)
        pricePerKg == waste_prices[normalized]
        amount == body.after.weight * pricePerKg
    IN /\ InflightCount < MaxInflight
       /\ Suspend(RequestCompletedCall(body.after.userId, body.after.weight, normalized,
                                       body.requestId, amount))
       /\ UNCHANGED <<ledger, readOnly, response>>

\* The db.runTransaction that credits the wallet, and the response
RequestCompletedCredit(call) ==
  /\ call.op = "requestCompleted"
  /\ IF call.userId \notin DOMAIN users
       THEN /\ response' = Response(500, "User not found")
            /\ UNCHANGED ledger
       ELSE /\ Len(wallet_transactions) < MaxTx
            /\ users' = [users EXCEPT
                 ![call.userId] =
                    [walletBalance |-> @.walletBalance + call.amount,
                     recycledWeight |-> @.recycledWeight + call.weight,
                     pointsEarned |-> @.pointsEarned + call.weight,
                     co2Saved |-> @.co2Saved + 3 * call.weight]]
            /\ wallet_transactions' = Append(wallet_transactions, CreditTx(call))
            /\ processed_requests' = processed_requests \cup {call.requestId}
            /\ response' = Response(200, "success")
  /\ inflight' = Resume(call)
  /\ UNCHANGED readOnly

----------------------------------------------------------------------------
(* The service *)

\* A collection without documents
NoDocuments == [id \in {} |-> {}]

\* The recycling requests the apps have created and a collector has accepted.
AcceptedRequests ==
  [requestId \in {"r1", "r2", "r3"} |->
     [status |-> "accepted", weight |-> 1,
      userId |-> IF requestId = "r3" THEN "ghost" ELSE "u1", wasteType |-> Plastics]]

\* No phone is bound, no OTP is issued, the rate limiter has seen no request.
NoAccounts ==
  /\ phone_numbers = NoDocuments
  /\ otp_verifications = NoDocuments
  /\ rateLimitMap = NoDocuments
  /\ now = 0
  /\ otp_history = NoDocuments

Init ==
  /\ users = [u \in RegisteredUsers |-> NewUser]
  /\ wallet_transactions = <<>>
  /\ processed_requests = {}
  /\ waste_prices = (Plastics :> 3)
  /\ recycling_requests = AcceptedRequests
  /\ NoAccounts
  /\ inflight = EmptyBag
  /\ response = NoResponse
  /\ argument = <<>>
  /\ returned = <<>>

\* A request arrives and its handler runs up to its first suspension (or to its response).
Accept ==
  \/ \E userId \in UserIds, amount \in WithdrawAmounts : Withdraw(userId, amount)
  \/ \E body \in B2CBodies : B2C(body.user_id, body.phone, body.amount)
  \/ \E i \in 1..Len(CallbackBodies) : B2CResult(CallbackBodies[i])
  \/ \E body \in CompletionBodies \cup MalformedCompletionBodies : RequestCompleted(body)

\* A suspended handler runs its transaction and responds.
Complete ==
  \/ \E call \in BagToSet(inflight) : B2CResultResolve(call)
  \/ \E call \in BagToSet(inflight) : RequestCompletedCredit(call)

Next == Accept \/ Complete

\* Every interleaving of the handlers' steps.
Spec == Init /\ [][Next]_vars

\* The handlers called one after the other: a request is accepted only when no
\* other handler is suspended.
NextSeq ==
  \/ \E userId \in UserIds, amount \in WithdrawAmounts :
       inflight = EmptyBag /\ Withdraw(userId, amount)
  \/ \E body \in B2CBodies :
       inflight = EmptyBag /\ B2C(body.user_id, body.phone, body.amount)
  \/ \E i \in 1..Len(CallbackBodies) :
       inflight = EmptyBag /\ B2CResult(CallbackBodies[i])
  \/ \E body \in CompletionBodies \cup MalformedCompletionBodies :
       inflight = EmptyBag /\ RequestCompleted(body)
  \/ Complete

SpecSeq == Init /\ [][NextSeq]_vars

----------------------------------------------------------------------------
(* POST /request-completed while the price table is being edited.  No       *)
(* handler of the repository writes waste_prices: its documents are written  *)
(* from outside the service.  When they can change, the read of              *)
(* processed_requests and the read of waste_prices are two steps.            *)

\* the price the model adds for Tins
TinsPricePerKg == 2

\* A waste_prices document is written from outside the service.
SetPrice(type, pricePerKg) ==
  /\ type \notin DOMAIN waste_prices
  /\ waste_prices' = (type :> pricePerKg) @@ waste_prices
  /\ UNCHANGED <<ledger, inflight, response, argument, returned, recycling_requests, accounts>>

RequestCompletedPriceCall(userId, weight, normalized, requestId) ==
  [op |-> "requestCompletedPrice", userId |-> userId, weight |-> weight,
   normalized |-> normalized, requestId |-> requestId]

\* The handler up to its read of waste_prices: the guard and the read of
\* processed_requests.
RequestCompletedProcessed(body) ==
  IF CompletionGuardThrows(body)
    THEN /\ response' = TypeErrorResponse
         /\ UNCHANGED <<ledger, readOnly, inflight>>
  ELSE IF ~Has(body, "after") \/ ~CompletionGuard(body.before, body.after)
    THEN /\ response' = Response(200, "No update needed")
         /\ UNCHANGED <<ledger, readOnly, inflight>>
  ELSE IF ~Has(body, "requestId")
    THEN /\ response' = DocumentPathResponse
         /\ UNCHANGED <<ledger, readOnly, inflight>>
  ELSE IF body.requestId \in processed_requests
    THEN /\ response' = Response(200, "Already processed")
         /\ UNCHANGED <<ledger, readOnly, inflight>>
  ELSE /\ InflightCount < MaxInflight
       /\ Suspend(RequestCompletedPriceCall(body.after.userId, body.after.weight,
                                            normalizeWasteType(body.after.wasteType),
                                            body.requestId))
       /\ UNCHANGED <<ledger, readOnly, response>>

\* RequestCompletedPrice writing the idempotency record when the price is missing
RequestCompletedPriceReserving(call) ==
  /\ call.op = "requestCompletedPrice"
  /\ IF call.normalized \notin DOMAIN waste_prices
       THEN /\ response' = Response(400, "Waste price not found")
            /\ processed_requests' = processed_requests \cup {call.requestId}
            /\ inflight' = Resume(call)
       ELSE /\ inflight' = Resume(call) (+)
                 SetToBag({RequestCompletedCall(call.userId, call.weight, call.normalized,
                                                call.requestId,
                                                call.weight * waste_prices[call.normalized])})
            /\ UNCHANGED <<processed_requests, response>>
  /\ UNCHANGED <<users, wallet_transactions, readOnly>>

\* The read of waste_prices, up to the start of db.runTransaction
RequestCompletedPrice(call) ==
  /\ call.op = "requestCompletedPrice"
  /\ IF call.normalized \notin DOMAIN waste_prices
       THEN /\ response' = Response(400, "Waste price not found")
            /\ inflight' = Resume(call)
       ELSE LET pricePerKg == waste_prices[call.normalized]
                amount == call.weight * pricePerKg
            IN /\ inflight' = Resume(call) (+)
                    SetToBag({RequestCompletedCall(call.userId, call.weight, call.normalized,
                                                   call.requestId, amount)})
               /\ UNCHANGED response
  /\ UNCHANGED <<ledger, readOnly>>

NextPrices ==
  \/ SetPrice(Tins, TinsPricePerKg)
  \/ \E body \in CompletionBodies : RequestCompletedProcessed(body)
  \/ \E call \in BagToSet(inflight) : RequestCompletedPrice(call)
  \/ \E call \in BagToSet(inflight) : RequestCompletedCredit(call)

SpecPrices == Init /\ [][NextPrices]_vars

\* The ids of the wallet_transactions documents
Docs == DOMAIN wallet_transactions

----------------------------------------------------------------------------
(* The earlier revision (src/unnamed/part_002): the Firestore trigger         *)
(* onRequestCompleted, and the server whose POST /b2c/result correlates a   *)
(* callback by user_id.  Both work on the same collections.  The collection *)
(* b2c_results, to which that /b2c/result adds every payload it receives,   *)
(* is read by no handler and is not modelled.                               *)

\* The events delivered to onRequestCompleted ({before, after} of the change and
\* context.params.requestId): a completion of a priced type, one whose type has
\* no waste_prices document under the name as written, one of an unknown user,
\* and a change that is not a completion.  Delivery is at least once.
Changes ==
  { CompletionBody("accepted", "completed", 1, "u1", Plastics, "r1"),
    CompletionBody("accepted", "completed", 1, "u1", <<"p", "l", "a", "s", "t", "i", "c">>, "r2"),
    CompletionBody("accepted", "completed", 1, "ghost", Plastics, "r2"),
    CompletionBody("completed", "completed", 1, "u1", Plastics, "r1") }

\* pc is the await the invocation is suspended at
onRequestCompletedCall(pc, userId, weight, requestId, amount) ==
  [op |-> "onRequestCompleted", pc |-> pc, userId |-> userId, weight |-> weight,
   requestId |-> requestId, amount |-> amount]

LegacyCreditTx(call) ==
  [userId |-> call.userId, type |-> "Recycle Credit", amount |-> call.amount,
   relatedRequest |-> call.requestId, status |-> "completed"]

\* The trigger up to its runTransaction: the guard and the read of waste_prices
\* (the document named by wasteType as written; pricePerKg || 0).
onRequestCompleted(change) ==
  IF ~CompletionGuard(change.before, change.after)
    THEN UNCHANGED vars
  ELSE
    LET pricePerKg == IF change.after.wasteType \in DOMAIN waste_prices
                        THEN waste_prices[change.after.wasteType] ELSE 0
    IN IF pricePerKg = 0
         THEN UNCHANGED vars
       ELSE /\ InflightCount < MaxInflight
            /\ Suspend(onRequestCompletedCall("update", change.after.userId, change.after.weight,
                                              change.requestId, change.after.weight * pricePerKg))
            /\ UNCHANGED <<ledger, readOnly, response>>

\* The runTransaction of the trigger: one transaction.update of the user with
\* four increments, which the store rejects when the user has no document.
\* The weight credited in a run is capped at MaxTx.
onRequestCompletedUpdate(call) ==
  /\ call.op = "onRequestCompleted"
  /\ call.pc = "update"
  /\ IF call.userId \notin DOMAIN users
       THEN /\ inflight' = Resume(call)
            /\ UNCHANGED users
       ELSE /\ users[call.userId].recycledWeight + call.weight <= MaxTx
            /\ users' = [users EXCEPT
                 ![call.userId] =
                    [walletBalance |-> @.walletBalance + call.amount,
                     recycledWeight |-> @.recycledWeight + call.weight,
                     pointsEarned |-> @.pointsEarned + call.weight,
                     co2Saved |-> @.co2Saved + 3 * call.weight]]
            /\ inflight' = Resume(call) (+) SetToBag({[call EXCEPT !.pc = "add"]})
  /\ UNCHANGED <<wallet_transactions, processed_requests, readOnly, response>>

\* The wallet_transactions.add that follows the transaction: a write of its own,
\* which the store commits (ok) or rejects.
onRequestCompletedAdd(call, ok) ==
  /\ call.op = "onRequestCompleted"
  /\ call.pc = "add"
  /\ IF ok
       THEN /\ Len(wallet_transactions) < MaxTx
            /\ wallet_transactions' = Append(wallet_transactions, LegacyCreditTx(call))
       ELSE UNCHANGED wallet_transactions
  /\ inflight' = Resume(call)
  /\ UNCHANGED <<users, processed_requests, readOnly, response>>

\* POST /b2c of the earlier server: the phone is stored as it was sent and the
\* payout service is not called.
LegacyB2C(user_id, phone, amount) ==
  IF Len(phone) < 10
    THEN /\ response' = Response(400, "String must contain at least 10 character(s)")
         /\ UNCHANGED <<ledger, readOnly, inflight>>
  ELSE IF ~(amount > 0)
    THEN /\ response' = Response(400, "Number must be greater than 0")
         /\ UNCHANGED <<ledger, readOnly, inflight>>
  ELSE IF user_id \notin DOMAIN users
    THEN /\ response' = Response(500, "User not found")
         /\ UNCHANGED <<ledger, readOnly, inflight>>
  ELSE IF amount > walletBalance(user_id)
    THEN /\ response' = Response(500, "Insufficient balance")
         /\ UNCHANGED <<ledger, readOnly, inflight>>
  ELSE /\ Len(wallet_transactions) < MaxTx
       /\ users' = [users EXCEPT ![user_id].walletBalance = walletBalance(user_id) - amount]
       /\ wallet_transactions' = Append(wallet_transactions, B2CTx(user_id, phone, amount))
       /\ response' = Response(200, "Wallet deducted. Awaiting MPESA callback.")
       /\ UNCHANGED <<processed_requests, readOnly, inflight>>

LegacyResultBody(conversation, resultCode, user_id, amount) ==
  [mpesa_response |-> [OriginatorConversationID |-> conversation, ResultCode |-> resultCode],
   user_id |-> user_id, amount |-> amount]

\* The payloads posted to the earlier /b2c/result: a success and a failure
\* report for u1 and each amount, one for an unknown user, and two without the
\* data the handler asks for.
LegacyCallbackBodies ==
  << LegacyResultBody("c1", 0, "u1", 1),
     LegacyResultBody("c2", 1, "u1", 1),
     LegacyResultBody("c3", 0, "u1", 2),
     LegacyResultBody("c4", 0, "ghost", 1),
     [mpesa_response |-> [ResultCode |-> 0], user_id |-> "u1", amount |-> 1],
     [user_id |-> "u1", amount |-> 1] >>

\* where status == pending, method == B2C
PendingB2C ==
  { d \in DOMAIN wallet_transactions :
      /\ wallet_transactions[d].status = "pending"
      /\ Has(wallet_transactions[d], "method")
      /\ wallet_transactions[d].method = "B2C" }

\* matched: the documents the forEach callback called doc.ref.update on;
\* docs: those whose update the store has not applied yet
LegacyB2CResultCall(matched, docs, result) ==
  [op |-> "legacyB2CResult", matched |-> matched, docs |-> docs, result |-> result]

\* The handler to its response.  transactions.forEach(async ...) calls
\* doc.ref.update for every document that passes the test and awaits none of
\* them: the response is sent while the updates are on their way.
LegacyB2CResult(data) ==
  IF ~Has(data, "mpesa_response") \/ ~Has(data.mpesa_response, "OriginatorConversationID")
    THEN /\ response' = Response(200, "OK")
         /\ UNCHANGED <<ledger, readOnly, inflight>>
  ELSE
    LET result == data.mpesa_response
        callbackAmount == -abs(data.amount)
        matched == { d \in PendingB2C :
                       /\ wallet_transactions[d].userId = data.user_id
                       /\ wallet_transactions[d].amount = callbackAmount }
    IN /\ response' = Response(200, "OK")
       /\ IF matched = {}
            THEN UNCHANGED inflight
            ELSE /\ InflightCount < MaxInflight
                 /\ Suspend(LegacyB2CResultCall(matched, matched, result))
       /\ UNCHANGED <<ledger, readOnly>>

\* The store applies one of the updates the handler sent.
LegacyB2CResultUpdate(call, doc) ==
  /\ call.op = "legacyB2CResult"
  /\ doc \in call.docs
  /\ wallet_transactions' =
       [wallet_transactions EXCEPT
          ![doc] = Update(@, [status |-> "completed", mpesaMeta |-> call.result])]
  /\ inflight' =
       IF call.docs = {doc} THEN Resume(call)
       ELSE Resume(call) (+) SetToBag({[call EXCEPT !.docs = @ \ {doc}]})
  /\ UNCHANGED <<users, processed_requests, readOnly, response>>

LegacyB2CBodies ==
  { B2CBody("u1", PhoneA, 1),
    B2CBody("u1", PhoneA, 2),
    B2CBody("u1", <<"0", "7">>, 1),
    B2CBody("u1", PhoneA, 0),
    B2CBody("ghost", PhoneA, 1) }

NextLegacy ==
  \/ \E change \in Changes : onRequestCompleted(change)
  \/ \E call \in BagToSet(inflight) : onRequestCompletedUpdate(call)
  \/ \E call \in BagToSet(inflight), ok \in BOOLEAN : onRequestCompletedAdd(call, ok)
  \/ \E body \in LegacyB2CBodies : LegacyB2C(body.user_id, body.phone, body.amount)
  \/ \E i \in 1..Len(LegacyCallbackBodies) : LegacyB2CResult(LegacyCallbackBodies[i])
  \/ \E call \in BagToSet(inflight) : \E doc \in Docs : LegacyB2CResultUpdate(call, doc)

SpecLegacy == Init /\ [][NextLegacy]_vars

----------------------------------------------------------------------------
(* The Cloud Functions of src/unnamed/part_002 other than                   *)
(* onRequestCompleted: updateRecycledStatsIncremental, which fires on every *)
(* write to recycling_requests/{requestId}, and the callable withdraw.  The *)
(* collection admin_notifications, to which the first adds a document for a *)
(* new request, is read by no function and is not modelled.                 *)

\* change.before / change.after of a document that does not exist
NoDocument == [exists |-> FALSE]

RequestDoc(status, weight, userId) ==
  [exists |-> TRUE, status |-> status, weight |-> weight, userId |-> userId]

\* The writes updateRecycledStatsIncremental is told of: a request is completed,
\* a completed request is cancelled, a completed request is deleted, a request
\* of a user without a document is completed, a request without userId is
\* completed.
StatsChanges ==
  { [before |-> RequestDoc("accepted", 1, "u1"), after |-> RequestDoc("completed", 1, "u1")],
    [before |-> RequestDoc("completed", 1, "u1"), after |-> RequestDoc("cancelled", 1, "u1")],
    [before |-> RequestDoc("completed", 1, "u1"), after |-> NoDocument],
    [before |-> RequestDoc("accepted", 1, "ghost"), after |-> RequestDoc("completed", 1, "ghost")],
    [before |-> RequestDoc("accepted", 1, ""), after |-> RequestDoc("completed", 1, "")] }

\* data && data.status === "completed" ? (data.weight || 0) : 0
getCompletedWeight(data) ==
  IF data.exists /\ data.status = "completed" THEN data.weight ELSE 0

\* The whole trigger: one userRef.update with three increments, which the store
\* rejects when the user has no document.  diffWeight / 50 is diffWeight
\* fiftieths of a point and diffWeight * 1.5 is 3 * diffWeight halves of a
\* kilogram.  The weight counted in a run is kept within 0..MaxTx.
updateRecycledStatsIncremental(change) ==
  LET before == change.before
      after == change.after
      userId == IF after.exists THEN after.userId ELSE before.userId
      beforeWeight == getCompletedWeight(before)
      afterWeight == getCompletedWeight(after)
      diffWeight == afterWeight - beforeWeight
  IN IF userId = "" \/ userId \notin DOMAIN users
       THEN UNCHANGED vars
     ELSE /\ users[userId].recycledWeight + diffWeight \in 0..MaxTx
          /\ users' = [users EXCEPT
               ![userId] =
                  [walletBalance |-> @.walletBalance,
                   recycledWeight |-> @.recycledWeight + diffWeight,
                   pointsEarned |-> @.pointsEarned + diffWeight,
                   co2Saved |-> @.co2Saved + 3 * diffWeight]]
          /\ UNCHANGED <<wallet_transactions, processed_requests, readOnly, inflight, response>>

\* What a callable answers when it throws anything but an HttpsError
InternalResponse == Response(500, "INTERNAL")

\* exports.withdraw for the caller context.auth.uid.  userSnap.data() is
\* undefined when the user has no document, and reading walletBalance of it
\* throws a TypeError inside the transaction, which writes nothing.
withdraw(userId, amount) ==
  IF userId = "" \/ amount = 0 \/ amount <= 0
    THEN /\ response' = Response(400, "Invalid data")
         /\ UNCHANGED <<ledger, readOnly, inflight>>
  ELSE IF userId \notin DOMAIN users
    THEN /\ response' = InternalResponse
         /\ UNCHANGED <<ledger, readOnly, inflight>>
  ELSE IF amount > walletBalance(userId)
    THEN /\ response' = Response(400, "Insufficient balance")
         /\ UNCHANGED <<ledger, readOnly, inflight>>
  ELSE /\ Len(wallet_transactions) < MaxTx
       /\ users' = [users EXCEPT ![userId].walletBalance = walletBalance(userId) - amount]
       /\ wallet_transactions' = Append(wallet_transactions, WithdrawTx(userId, amount))
       /\ response' = Response(200, "success")
       /\ UNCHANGED <<processed_requests, readOnly, inflight>>

\* The functions next to the server's POST /request-completed, which credits
\* the same users documents.
NextFunctions ==
  \/ \E change \in StatsChanges : updateRecycledStatsIncremental(change)
  \/ \E userId \in UserIds, amount \in WithdrawAmounts : withdraw(userId, amount)
  \/ \E body \in CompletionBodies : RequestCompleted(body)
  \/ \E call \in BagToSet(inflight) : RequestCompletedCredit(call)

SpecFunctions == Init /\ [][NextFunctions]_vars

----------------------------------------------------------------------------
(* POST /b2c with its call of the payout service as a step of its own: the  *)
(* handler is suspended at the fetch after its transaction has committed,   *)
(* and other requests are served meanwhile.  A fetch that never returns is  *)
(* a call that stays suspended.                                             *)

\* What the handler ends up with in payoutResult: the reply of the service (a
\* success or an error reply), or the message of the error fetch threw.
PayoutResults ==
  { [success |-> TRUE],
    [success |-> FALSE, error |-> "Insufficient funds"],
    [success |-> FALSE, error |-> "fetch failed"] }

\* the locals of the handler across the fetch
B2CPayoutCall(user_id, normalizedPhone, amount) ==
  [op |-> "b2cPayout", user_id |-> user_id, phone |-> normalizedPhone, amount |-> amount]

\* B2CReserve calling the payout service without committing the debit
B2CReservePayoutFirst(user_id, phone, amount) ==
  IF Len(phone) < 10
    THEN /\ response' = Response(400, "String must contain at least 10 character(s)")
         /\ UNCHANGED <<ledger, readOnly, inflight>>
  ELSE IF ~(amount > 0)
    THEN /\ response' = Response(400, "Number must be greater than 0")
         /\ UNCHANGED <<ledger, readOnly, inflight>>
  ELSE IF user_id \notin DOMAIN users
    THEN /\ response' = Response(500, "User not found")
         /\ UNCHANGED <<ledger, readOnly, inflight>>
  ELSE IF amount > walletBalance(user_id)
    THEN /\ response' = Response(500, "Insufficient balance")
         /\ UNCHANGED <<ledger, readOnly, inflight>>
  ELSE /\ InflightCount < MaxInflight
       /\ Suspend(B2CPayoutCall(user_id, normalizeKenyanNumber(phone), amount))
       /\ UNCHANGED <<ledger, readOnly, response>>

\* The handler up to its fetch: the schema, and the transaction that debits the
\* wallet and logs the pending withdrawal.
B2CReserve(user_id, phone, amount) ==
  IF Len(phone) < 10
    THEN /\ response' = Response(400, "String must contain at least 10 character(s)")
         /\ UNCHANGED <<ledger, readOnly, inflight>>
  ELSE IF ~(amount > 0)
    THEN /\ response' = Response(400, "Number must be greater than 0")
         /\ UNCHANGED <<ledger, readOnly, inflight>>
  ELSE IF user_id \notin DOMAIN users
    THEN /\ response' = Response(500, "User not found")
         /\ UNCHANGED <<ledger, readOnly, inflight>>
  ELSE IF amount > walletBalance(user_id)
    THEN /\ response' = Response(500, "Insufficient balance")
         /\ UNCHANGED <<ledger, readOnly, inflight>>
  ELSE /\ Len(wallet_transactions) < MaxTx
       /\ InflightCount < MaxInflight
       /\ users' = [users EXCEPT ![user_id].walletBalance = walletBalance(user_id) - amount]
       /\ wallet_transactions' =
            Append(wallet_transactions, B2CTx(user_id, normalizeKenyanNumber(phone), amount))
       /\ Suspend(B2CPayoutCall(user_id, normalizeKenyanNumber(phone), amount))
       /\ UNCHANGED <<processed_requests, readOnly, response>>

PayoutResponse(payoutResult) ==
  [status |-> 200, body |-> "Wallet deducted. MPESA payout initiated.", payout |-> payoutResult]

\* The fetch returns or throws, and the handler responds.
B2CPayout(call, payoutResult) ==
  /\ call.op = "b2cPayout"
  /\ inflight' = Resume(call)
  /\ response' = PayoutResponse(payoutResult)
  /\ UNCHANGED <<ledger, readOnly>>

NextPayout ==
  \/ \E body \in B2CBodies : B2CReserve(body.user_id, body.phone, body.amount)
  \/ \E call \in BagToSet(inflight), payoutResult \in PayoutResults : B2CPayout(call, payoutResult)
  \/ \E i \in 1..Len(CallbackBodies) : B2CResult(CallbackBodies[i])
  \/ \E call \in BagToSet(inflight) : B2CResultResolve(call)
  \/ \E body \in CompletionBodies : RequestCompleted(body)
  \/ \E call \in BagToSet(inflight) : RequestCompletedCredit(call)

SpecPayout == Init /\ [][NextPayout]_vars

----------------------------------------------------------------------------
(* normalizeWasteType called on its own: on a wasteType that passes the     *)
(* guard of POST /request-completed (a non-empty string), and then on what  *)
(* it returned.                                                             *)

\* Longest wasteType the model passes to normalizeWasteType.
MaxLen == 3

\* the characters of those strings: white space, the plural suffix in both
\* cases, a lower-case and an upper-case letter
WasteTypeChars == {" ", "s", "S", "p", "T"}

WasteTypes == UNION { [1..n -> WasteTypeChars] : n \in 1..MaxLen }

InitNormalize ==
  /\ users = [u \in RegisteredUsers |-> NewUser]
  /\ wallet_transactions = <<>>
  /\ processed_requests = {}
  /\ waste_prices = (Plastics :> 3)
  /\ recycling_requests = AcceptedRequests
  /\ NoAccounts
  /\ inflight = EmptyBag
  /\ response = NoResponse
  /\ argument \in WasteTypes
  /\ returned = <<>>

\* normalizeWasteType(after.wasteType)
Normalize ==
  /\ returned = <<>>
  /\ returned' = <<normalizeWasteType(argument)>>
  /\ UNCHANGED <<ledger, waste_prices, inflight, response, argument, recycling_requests, accounts>>

\* normalizeWasteType of the string the first call returned
NormalizeAgain ==
  /\ Len(returned) = 1
  /\ returned' = Append(returned, normalizeWasteType(returned[1]))
  /\ UNCHANGED <<ledger, waste_prices, inflight, response, argument, recycling_requests, accounts>>

NextNormalize == Normalize \/ NormalizeAgain

SpecNormalize == InitNormalize /\ [][NextNormalize]_vars

----------------------------------------------------------------------------
(* The phone of a payout, from POST /b2c to POST /b2c/result: /b2c stores   *)
(* normalizeKenyanNumber(phone) on the pending withdrawal and sends the     *)
(* same string to the payout service; /b2c/result takes the phone from the  *)
(* callback's ReceiverPartyPublicName by removing a leading tel: and        *)
(* queries the pending withdrawals by it.                                   *)

\* subscriber numbers: nine digits that start with 7 or 1
Subscribers ==
  { <<first>> \o <<"0", "0", "0", "0", "0", "0", "0">> \o <<last>> :
      first \in {"7", "1"}, last \in {"0", "1", "2"} }

\* The forms a subscriber number is posted in: 254XXXXXXXXX, +254XXXXXXXXX,
\* 0XXXXXXXXX, the same with a space after the prefix, and the nine digits
\* alone and with a space.
PhoneForms(n) ==
  { <<"2", "5", "4">> \o n,
    <<"+", "2", "5", "4">> \o n,
    <<"0">> \o n,
    <<"0", " ">> \o n,
    n,
    <<Head(n), " ">> \o Tail(n) }

PostedPhones == UNION { PhoneForms(n) : n \in Subscribers }

InitPhones ==
  /\ users = [u \in RegisteredUsers |-> NewUser]
  /\ wallet_transactions = <<>>
  /\ processed_requests = {}
  /\ waste_prices = (Plastics :> 3)
  /\ recycling_requests = AcceptedRequests
  /\ NoAccounts
  /\ inflight = EmptyBag
  /\ response = NoResponse
  /\ argument \in PostedPhones
  /\ returned = <<>>

\* POST /b2c: the schema (phone: z.string().min(10)) and normalizedPhone, the
\* phone stored on the withdrawal and sent to the payout service
StorePhone ==
  /\ returned = <<>>
  /\ Len(argument) >= 10
  /\ returned' = <<normalizeKenyanNumber(argument)>>
  /\ UNCHANGED <<ledger, waste_prices, inflight, response, argument, recycling_requests, accounts>>

\* POST /b2c/result for a callback that names the phone as it was posted to /b2c
ExtractPostedPhone ==
  /\ Len(returned) = 1
  /\ returned' = Append(returned, [names |-> "posted", phoneNumber |-> stripTel(Tel(argument))])
  /\ UNCHANGED <<ledger, waste_prices, inflight, response, argument, recycling_requests, accounts>>

\* POST /b2c/result for a callback that names the phone the payout service was sent
ExtractSentPhone ==
  /\ Len(returned) = 1
  /\ returned' = Append(returned, [names |-> "sent", phoneNumber |-> stripTel(Tel(returned[1]))])
  /\ UNCHANGED <<ledger, waste_prices, inflight, response, argument, recycling_requests, accounts>>

NextPhones == StorePhone \/ ExtractPostedPhone \/ ExtractSentPhone

SpecPhones == InitPhones /\ [][NextPhones]_vars

----------------------------------------------------------------------------
(* The two Cloud Functions of src/unnamed/part_002 on the document          *)
(* recycling_requests/{requestId}: a write of the document invokes          *)
(* updateRecycledStatsIncremental (onWrite) and, the document having        *)
(* existed before, onRequestCompleted (onUpdate), each once, in no fixed    *)
(* order.                                                                   *)

\* change.before / change.after of a document that exists
Snapshot(doc) == [exists |-> TRUE] @@ doc

\* The invocation of a function for a write, before it has run
TriggerCall(op, requestId, before, after) ==
  [op |-> op, pc |-> "start", requestId |-> requestId, before |-> before, after |-> after]

\* A collector's app marks an accepted request completed; both functions are invoked.
CompleteRequest(requestId) ==
  /\ recycling_requests[requestId].status # "completed"
  /\ InflightCount + 2 <= MaxInflight
  /\ recycling_requests' = [recycling_requests EXCEPT ![requestId].status = "completed"]
  /\ inflight' = inflight
       (+) SetToBag({TriggerCall("updateRecycledStatsIncremental", requestId,
                                 Snapshot(recycling_requests[requestId]),
                                 Snapshot(recycling_requests'[requestId]))})
       (+) SetToBag({TriggerCall("onRequestCompleted", requestId,
                                 Snapshot(recycling_requests[requestId]),
                                 Snapshot(recycling_requests'[requestId]))})
  /\ UNCHANGED <<ledger, waste_prices, argument, returned, accounts, response>>

\* updateRecycledStatsIncremental, run for one write
updateRecycledStatsIncrementalRun(call) ==
  /\ call.op = "updateRecycledStatsIncremental"
  /\ LET userId == IF call.after.exists THEN call.after.userId ELSE call.before.userId
         diffWeight == getCompletedWeight(call.after) - getCompletedWeight(call.before)
     IN IF userId = "" \/ userId \notin DOMAIN users
          THEN UNCHANGED users
        ELSE users' = [users EXCEPT
               ![userId] =
                  [walletBalance |-> @.walletBalance,
                   recycledWeight |-> @.recycledWeight + diffWeight,
                   pointsEarned |-> @.pointsEarned + diffWeight,
                   co2Saved |-> @.co2Saved + 3 * diffWeight]]
  /\ inflight' = Resume(call)
  /\ UNCHANGED <<wallet_transactions, processed_requests, readOnly, response>>

\* onRequestCompleted, run for one write, up to its runTransaction
onRequestCompletedRun(call) ==
  /\ call.op = "onRequestCompleted"
  /\ call.pc = "start"
  /\ IF ~CompletionGuard(call.before, call.after)
       THEN inflight' = Resume(call)
     ELSE
       LET pricePerKg == IF call.after.wasteType \in DOMAIN waste_prices
                           THEN waste_prices[call.after.wasteType] ELSE 0
       IN IF pricePerKg = 0
            THEN inflight' = Resume(call)
          ELSE inflight' = Resume(call)
                 (+) SetToBag({onRequestCompletedCall("update", call.after.userId, call.after.weight,
                                                      call.requestId,
                                                      call.after.weight * pricePerKg)})
  /\ UNCHANGED <<ledger, readOnly, response>>

NextTriggers ==
  \/ \E requestId \in DOMAIN recycling_requests : CompleteRequest(requestId)
  \/ \E call \in BagToSet(inflight) : updateRecycledStatsIncrementalRun(call)
  \/ \E call \in BagToSet(inflight) : onRequestCompletedRun(call)
  \/ \E call \in BagToSet(inflight) : onRequestCompletedUpdate(call)
  \/ \E call \in BagToSet(inflight), ok \in BOOLEAN : onRequestCompletedAdd(call, ok)

SpecTriggers == Init /\ [][NextTriggers]_vars

----------------------------------------------------------------------------
(* The wallet handlers with two users that have a document: u1, who is paid *)
(* out to PhoneA, and u2, who is paid out to PhoneB.                        *)

TwoUsers == {"u1", "u2"}

InitTwoUsers ==
  /\ users = [u \in TwoUsers |-> NewUser]
  /\ wallet_transactions = <<>>
  /\ processed_requests = {}
  /\ waste_prices = (Plastics :> 3)
  /\ recycling_requests = AcceptedRequests
  /\ NoAccounts
  /\ inflight = EmptyBag
  /\ response = NoResponse
  /\ argument = <<>>
  /\ returned = <<>>

\* one completion per user
TwoUsersCompletionBodies ==
  { CompletionBody("accepted", "completed", 1, "u1", Plastics, "r1"),
    CompletionBody("accepted", "completed", 1, "u2", Plastics, "r2") }

TwoUsersB2CBodies == { B2CBody("u1", PhoneA, 2), B2CBody("u2", PhoneB, 2) }

\* a success and a failure report for PhoneA, a failure report for PhoneB, each of amount 2
TwoUsersCallbackBodies == { CallbackBodies[2], CallbackBodies[4], CallbackBodies[6] }

NextTwoUsers ==
  \/ \E userId \in TwoUsers, amount \in WithdrawAmounts : Withdraw(userId, amount)
  \/ \E body \in TwoUsersB2CBodies : B2C(body.user_id, body.phone, body.amount)
  \/ \E body \in TwoUsersCallbackBodies : B2CResult(body)
  \/ \E call \in BagToSet(inflight) : B2CResultResolve(call)
  \/ \E body \in TwoUsersCompletionBodies : RequestCompleted(body)
  \/ \E call \in BagToSet(inflight) : RequestCompletedCredit(call)

SpecTwoUsers == InitTwoUsers /\ [][NextTwoUsers]_vars

----------------------------------------------------------------------------
(* Accounts: POST /send-otp, /verify-otp, /reserve-phone, /cleanup-expired-otps *)

\* Date.now() is counted in minutes: the OTP's 5 * 60 * 1000 ms
OTP_LIFETIME == 5

\* the clock stops here
MaxNow == 6

\* Math.floor(100000 + Math.random() * 900000).toString(): two of the codes
Code1 == <<"1", "2", "3", "4", "5", "6">>

Code2 == <<"6", "5", "4", "3", "2", "1">>

OtpCodes == {Code1, Code2}

\* PhoneA as its owner types it
LocalA == <<"0", "7", "0", "0", "0", "0", "0", "0", "0", "1">>

\* The bodies posted to /send-otp: one phone in two forms, and one the schema turns away.
SendOtpBodies ==
  { [phoneNumber |-> PhoneA], [phoneNumber |-> LocalA], [phoneNumber |-> <<"0", "7">>] }

\* The bodies posted to /verify-otp: a code for each user and one without
\* userId, for the phone in either form; one with a short code.
VerifyOtpBodies ==
  { [phoneNumber |-> PhoneA, otp |-> Code1, userId |-> "u1"],
    [phoneNumber |-> LocalA, otp |-> Code1, userId |-> "u2"],
    [phoneNumber |-> PhoneA, otp |-> Code1],
    [phoneNumber |-> PhoneA, otp |-> Code2],
    [phoneNumber |-> PhoneA, otp |-> <<"1", "2">>] }

\* The bodies posted to /reserve-phone
ReservePhoneBodies ==
  { [userId |-> "u1", phoneNumber |-> PhoneA],
    [userId |-> "u2", phoneNumber |-> LocalA],
    [userId |-> "u1", phoneNumber |-> <<"0", "7">>] }

\* admin.firestore.FieldValue.serverTimestamp(): no handler reads the value
ServerTimestamp == "serverTimestamp"

\* ref.set(fields, { merge: true }): the document is created when there is none
SetMerge(collection, id, fields) ==
  (id :> IF id \in DOMAIN collection THEN Update(collection[id], fields) ELSE fields)
    @@ collection

\* ref.delete()
Delete(collection, id) == [d \in DOMAIN collection \ {id} |-> collection[d]]

\* mapSnap.exists && mapSnap.data().ownerUid && mapSnap.data().ownerUid !== userId
OwnedByAnother(normalizedPhone, userId) ==
  /\ normalizedPhone \in DOMAIN phone_numbers
  /\ Has(phone_numbers[normalizedPhone], "ownerUid")
  /\ phone_numbers[normalizedPhone].ownerUid # ""
  /\ phone_numbers[normalizedPhone].ownerUid # userId

\* What the history holds of the OTP a phone was sent last: the wrong codes
\* compared with it and the calls that verified with it.
Issued(normalizedPhone) ==
  IF normalizedPhone \in DOMAIN otp_history THEN otp_history[normalizedPhone]
  ELSE [wrong |-> 0, verified |-> 0]

\* The suspended /verify-otp calls that found a code valid hold an OTP that
\* is no longer the last one sent to the phone (history).
Superseded(normalizedPhone) ==
  BagOfAll(LAMBDA call :
             IF call.op = "verifyOtp" /\ call.normalizedPhone = normalizedPhone
                  /\ call.pc \in {"valid", "bind"}
               THEN [call EXCEPT !.last = FALSE] ELSE call,
           inflight)

Record(normalizedPhone, entry) == otp_history' = (normalizedPhone :> entry) @@ otp_history

\* POST /send-otp, for a request the rate limiter passed on.  sent: whether the
\* SMS gateway accepted the message; the OTP document is written before.
SendOtp(body, otp, sent) ==
  IF Len(body.phoneNumber) < 10
    THEN /\ response' = Response(400, "String must contain at least 10 character(s)")
         /\ UNCHANGED <<users, phone_numbers, otp_verifications, otp_history, inflight>>
  ELSE LET normalizedPhone == normalizeKenyanNumber(body.phoneNumber) IN
       /\ otp_verifications' =
            (normalizedPhone :>
               [phoneNumber |-> normalizedPhone, otp |-> otp, expiresAt |-> now + OTP_LIFETIME,
                createdAt |-> ServerTimestamp, attempts |-> 0]) @@ otp_verifications
       /\ Record(normalizedPhone, [wrong |-> 0, verified |-> 0])
       /\ inflight' = Superseded(normalizedPhone)
       /\ response' = IF sent THEN Response(200, "OTP sent") ELSE Response(500, "Failed to send OTP")
       /\ UNCHANGED <<users, phone_numbers>>

\* A /verify-otp invocation suspended at the await its pc names; userId is ""
\* when the body has none, and where the rest of the handler does not read it.
\* last: the OTP it read is the last one sent to the phone (history).
VerifyOtpCall(pc, normalizedPhone, userId) ==
  [op |-> "verifyOtp", pc |-> pc, normalizedPhone |-> normalizedPhone,
   userId |-> IF pc = "valid" THEN userId ELSE "", last |-> TRUE]

\* POST /verify-otp testing the code before the expiry
VerifyOtpCodeFirst(body) ==
  IF Len(body.phoneNumber) < 10
    THEN /\ response' = Response(400, "String must contain at least 10 character(s)")
         /\ UNCHANGED <<users, phone_numbers, otp_verifications, otp_history, inflight>>
  ELSE IF Len(body.otp) # 6
    THEN /\ response' = Response(400, "String must contain at least 6 character(s)")
         /\ UNCHANGED <<users, phone_numbers, otp_verifications, otp_history, inflight>>
  ELSE LET normalizedPhone == normalizeKenyanNumber(body.phoneNumber)
           userId == IF Has(body, "userId") THEN body.userId ELSE ""
           call(pc) == VerifyOtpCall(pc, normalizedPhone, userId)
       IN
       IF normalizedPhone \notin DOMAIN otp_verifications
         THEN /\ response' = Response(400, "No OTP found")
              /\ UNCHANGED <<users, phone_numbers, otp_verifications, otp_history, inflight>>
       ELSE LET data == otp_verifications[normalizedPhone] IN
            /\ InflightCount < MaxInflight
            /\ UNCHANGED <<users, phone_numbers, otp_verifications, response>>
            /\ IF data.attempts >= 3
                 THEN Suspend(call("tooMany")) /\ UNCHANGED otp_history
               ELSE IF trim(data.otp) = trim(body.otp)
                 THEN Suspend(call("valid")) /\ UNCHANGED otp_history
               ELSE IF now > data.expiresAt
                 THEN Suspend(call("expired")) /\ UNCHANGED otp_history
               ELSE /\ Suspend(call("invalid"))
                    /\ Record(normalizedPhone,
                              [Issued(normalizedPhone) EXCEPT !.wrong = @ + 1])

\* POST /verify-otp, for a request the rate limiter passed on, up to the await
\* that follows docRef.get(): the tests on the document read, in the code's order.
VerifyOtp(body) ==
  IF Len(body.phoneNumber) < 10
    THEN /\ response' = Response(400, "String must contain at least 10 character(s)")
         /\ UNCHANGED <<users, phone_numbers, otp_verifications, otp_history, inflight>>
  ELSE IF Len(body.otp) # 6
    THEN /\ response' = Response(400, "String must contain at least 6 character(s)")
         /\ UNCHANGED <<users, phone_numbers, otp_verifications, otp_history, inflight>>
  ELSE LET normalizedPhone == normalizeKenyanNumber(body.phoneNumber)
           userId == IF Has(body, "userId") THEN body.userId ELSE ""
           call(pc) == VerifyOtpCall(pc, normalizedPhone, userId)
       IN
       IF normalizedPhone \notin DOMAIN otp_verifications
         THEN /\ response' = Response(400, "No OTP found")
              /\ UNCHANGED <<users, phone_numbers, otp_verifications, otp_history, inflight>>
       ELSE LET data == otp_verifications[normalizedPhone] IN
            /\ InflightCount < MaxInflight
            /\ UNCHANGED <<users, phone_numbers, otp_verifications, response>>
            /\ IF data.attempts >= 3
                 THEN Suspend(call("tooMany")) /\ UNCHANGED otp_history
               ELSE IF now > data.expiresAt
                 THEN Suspend(call("expired")) /\ UNCHANGED otp_history
               ELSE IF trim(data.otp) # trim(body.otp)
                 THEN /\ Suspend(call("invalid"))
                      /\ Record(normalizedPhone,
                                [Issued(normalizedPhone) EXCEPT !.wrong = @ + 1])
               ELSE Suspend(call("valid")) /\ UNCHANGED otp_history

\* The write /verify-otp awaits after its tests: docRef.delete() or the
\* increment of attempts, which fails when the document is gone.  Without a
\* userId the valid call answers here; with one it goes on to the binding.
VerifyOtpWrite(call) ==
  /\ call.op = "verifyOtp"
  /\ call.pc \in {"tooMany", "expired", "invalid", "valid"}
  /\ UNCHANGED <<users, phone_numbers>>
  /\ IF call.pc = "invalid"
       THEN IF call.normalizedPhone \in DOMAIN otp_verifications
              THEN /\ otp_verifications' =
                        [otp_verifications EXCEPT ![call.normalizedPhone].attempts = @ + 1]
                   /\ response' = Response(400, "Invalid OTP")
                   /\ inflight' = Resume(call)
                   /\ UNCHANGED otp_history
            ELSE /\ response' = Response(500, "Verification failed")
                 /\ inflight' = Resume(call)
                 /\ UNCHANGED <<otp_verifications, otp_history>>
     ELSE /\ otp_verifications' = Delete(otp_verifications, call.normalizedPhone)
          /\ IF call.pc = "tooMany"
               THEN /\ response' =
                         Response(400, "Too many failed attempts. Please request a new OTP.")
                    /\ inflight' = Resume(call)
                    /\ UNCHANGED otp_history
             ELSE IF call.pc = "expired"
               THEN /\ response' = Response(400, "OTP expired")
                    /\ inflight' = Resume(call)
                    /\ UNCHANGED otp_history
             ELSE IF call.userId # ""
               THEN /\ inflight' = Resume(call) (+) SetToBag({[call EXCEPT !.pc = "bind"]})
                    /\ UNCHANGED <<response, otp_history>>
             ELSE /\ response' = Response(200, "OTP verified successfully")
                  /\ inflight' = Resume(call)
                  /\ IF call.last
                       THEN Record(call.normalizedPhone,
                                   [Issued(call.normalizedPhone) EXCEPT !.verified = @ + 1])
                     ELSE UNCHANGED otp_history

\* The binding transaction of /verify-otp that lets a second user take the phone
VerifyOtpBindUnchecked(call) ==
  /\ call.op = "verifyOtp"
  /\ call.pc = "bind"
  /\ inflight' = Resume(call)
  /\ UNCHANGED otp_verifications
  /\ phone_numbers' = SetMerge(phone_numbers, call.normalizedPhone,
                               [ownerUid |-> call.userId, updatedAt |-> ServerTimestamp])
  /\ users' = SetMerge(users, call.userId,
                       [phoneNumber |-> call.normalizedPhone, phoneVerified |-> TRUE,
                        lastVerified |-> ServerTimestamp])
  /\ response' = Response(200, "OTP verified successfully")
  /\ IF call.last
       THEN Record(call.normalizedPhone,
                   [Issued(call.normalizedPhone) EXCEPT !.verified = @ + 1])
     ELSE UNCHANGED otp_history

\* The binding transaction of /verify-otp and the response.  The throw lands
\* in the handler's catch.
VerifyOtpBind(call) ==
  /\ call.op = "verifyOtp"
  /\ call.pc = "bind"
  /\ inflight' = Resume(call)
  /\ UNCHANGED otp_verifications
  /\ IF OwnedByAnother(call.normalizedPhone, call.userId)
       THEN /\ response' = Response(500, "Verification failed")
            /\ UNCHANGED <<users, phone_numbers, otp_history>>
     ELSE /\ phone_numbers' = SetMerge(phone_numbers, call.normalizedPhone,
                                       [ownerUid |-> call.userId, updatedAt |-> ServerTimestamp])
          /\ users' = SetMerge(users, call.userId,
                               [phoneNumber |-> call.normalizedPhone, phoneVerified |-> TRUE,
                                lastVerified |-> ServerTimestamp])
          /\ response' = Response(200, "OTP verified successfully")
          /\ IF call.last
               THEN Record(call.normalizedPhone,
                           [Issued(call.normalizedPhone) EXCEPT !.verified = @ + 1])
             ELSE UNCHANGED otp_history

\* POST /reserve-phone: one transaction
ReservePhone(body) ==
  IF Len(body.phoneNumber) < 10
    THEN /\ response' = Response(400, "String must contain at least 10 character(s)")
         /\ UNCHANGED <<users, phone_numbers, otp_verifications, otp_history, inflight>>
  ELSE LET normalizedPhone == normalizeKenyanNumber(body.phoneNumber) IN
       IF OwnedByAnother(normalizedPhone, body.userId)
         THEN /\ response' = Response(409, "Phone number already in use")
              /\ UNCHANGED <<users, phone_numbers, otp_verifications, otp_history, inflight>>
       ELSE /\ phone_numbers' = SetMerge(phone_numbers, normalizedPhone,
                                         [ownerUid |-> body.userId, reservedAt |-> ServerTimestamp])
            /\ users' = SetMerge(users, body.userId, [phoneNumber |-> normalizedPhone])
            /\ response' = Response(200, "success")
            /\ UNCHANGED <<otp_verifications, otp_history, inflight>>

\* POST /cleanup-expired-otps up to batch.commit(): the query
CleanupExpiredOtps ==
  /\ InflightCount < MaxInflight
  /\ Suspend([op |-> "cleanup",
              docs |-> {d \in DOMAIN otp_verifications : otp_verifications[d].expiresAt < now}])
  /\ UNCHANGED <<users, phone_numbers, otp_verifications, otp_history, response>>

\* batch.commit() of /cleanup-expired-otps and the response
CleanupExpiredOtpsCommit(call) ==
  /\ call.op = "cleanup"
  /\ inflight' = Resume(call)
  /\ otp_verifications' =
       [d \in DOMAIN otp_verifications \ call.docs |-> otp_verifications[d]]
  /\ response' = Response(200, "success")
  /\ UNCHANGED <<users, phone_numbers, otp_history>>

\* Time passes
Tick(minutes) ==
  /\ now + minutes <= MaxNow
  /\ now' = now + minutes
  /\ UNCHANGED <<users, phone_numbers, otp_verifications, otp_history, inflight, response>>

\* The clock is read when more than half the life of an OTP has passed: an OTP
\* is seen fresh, aged, and expired.
OtpAge == OTP_LIFETIME \div 2 + 1

\* What no account handler writes
accountsFrame ==
  <<wallet_transactions, processed_requests, waste_prices, argument, returned,
    recycling_requests, rateLimitMap>>

NextAccounts ==
  \/ \E body \in SendOtpBodies, otp \in OtpCodes, sent \in BOOLEAN :
       SendOtp(body, otp, sent) /\ UNCHANGED <<accountsFrame, now>>
  \/ \E body \in VerifyOtpBodies : VerifyOtp(body) /\ UNCHANGED <<accountsFrame, now>>
  \/ \E call \in BagToSet(inflight) : VerifyOtpWrite(call) /\ UNCHANGED <<accountsFrame, now>>
  \/ \E call \in BagToSet(inflight) : VerifyOtpBind(call) /\ UNCHANGED <<accountsFrame, now>>
  \/ \E body \in ReservePhoneBodies : ReservePhone(body) /\ UNCHANGED <<accountsFrame, now>>
  \/ CleanupExpiredOtps /\ UNCHANGED <<accountsFrame, now>>
  \/ \E call \in BagToSet(inflight) :
       CleanupExpiredOtpsCommit(call) /\ UNCHANGED <<accountsFrame, now>>
  \/ Tick(OtpAge) /\ UNCHANGED accountsFrame

\* Every interleaving of the account handlers' steps and of the clock.
SpecAccounts == Init /\ [][NextAccounts]_vars

\* Phone binding alone: the OTPs sent do not expire while the clock stands.
NextBinding ==
  \/ \E body \in SendOtpBodies, otp \in OtpCodes, sent \in BOOLEAN :
       SendOtp(body, otp, sent) /\ UNCHANGED <<accountsFrame, now>>
  \/ \E body \in VerifyOtpBodies : VerifyOtp(body) /\ UNCHANGED <<accountsFrame, now>>
  \/ \E call \in BagToSet(inflight) : VerifyOtpWrite(call) /\ UNCHANGED <<accountsFrame, now>>
  \/ \E call \in BagToSet(inflight) : VerifyOtpBind(call) /\ UNCHANGED <<accountsFrame, now>>
  \/ \E body \in ReservePhoneBodies : ReservePhone(body) /\ UNCHANGED <<accountsFrame, now>>

SpecBinding == Init /\ [][NextBinding]_vars

\* OTP verification alone, as the clock runs
NextOtp ==
  \/ \E body \in SendOtpBodies, otp \in OtpCodes, sent \in BOOLEAN :
       SendOtp(body, otp, sent) /\ UNCHANGED <<accountsFrame, now>>
  \/ \E body \in VerifyOtpBodies : VerifyOtp(body) /\ UNCHANGED <<accountsFrame, now>>
  \/ \E call \in BagToSet(inflight) : VerifyOtpWrite(call) /\ UNCHANGED <<accountsFrame, now>>
  \/ \E call \in BagToSet(inflight) : VerifyOtpBind(call) /\ UNCHANGED <<accountsFrame, now>>
  \/ Tick(OtpAge) /\ UNCHANGED accountsFrame

SpecOtp == Init /\ [][NextOtp]_vars

----------------------------------------------------------------------------
(* The rate limiter in front of the OTP endpoints *)

\* 60 * 1000 ms, in minutes
RATE_LIMIT_WINDOW == 1

RATE_LIMIT_MAX_REQUESTS == 5

\* req.ip of the requests
Ips == {"ip1", "ip2"}

TooManyRequests == Response(429, "Too many requests. Please try again later.")

\* rateLimit admitting one request more than the maximum
rateLimitOffByOne(ip, next) ==
  IF ip \notin DOMAIN rateLimitMap
    THEN /\ rateLimitMap' =
              (ip :> [count |-> 1, resetTime |-> now + RATE_LIMIT_WINDOW]) @@ rateLimitMap
         /\ next
  ELSE IF now > rateLimitMap[ip].resetTime
    THEN /\ rateLimitMap' =
              [rateLimitMap EXCEPT ![ip] = [count |-> 1, resetTime |-> now + RATE_LIMIT_WINDOW]]
         /\ next
  ELSE IF rateLimitMap[ip].count > RATE_LIMIT_MAX_REQUESTS
    THEN /\ response' = TooManyRequests
         /\ UNCHANGED <<rateLimitMap, users, phone_numbers, otp_verifications, otp_history,
                        inflight>>
  ELSE /\ rateLimitMap' = [rateLimitMap EXCEPT ![ip].count = @ + 1]
       /\ next

\* rateLimit for a request from ip; next is the handler behind it, which runs
\* in the same step up to its first await.
rateLimit(ip, next) ==
  IF ip \notin DOMAIN rateLimitMap
    THEN /\ rateLimitMap' =
              (ip :> [count |-> 1, resetTime |-> now + RATE_LIMIT_WINDOW]) @@ rateLimitMap
         /\ next
  ELSE IF now > rateLimitMap[ip].resetTime
    THEN /\ rateLimitMap' =
              [rateLimitMap EXCEPT ![ip] = [count |-> 1, resetTime |-> now + RATE_LIMIT_WINDOW]]
         /\ next
  ELSE IF rateLimitMap[ip].count >= RATE_LIMIT_MAX_REQUESTS
    THEN /\ response' = TooManyRequests
         /\ UNCHANGED <<rateLimitMap, users, phone_numbers, otp_verifications, otp_history,
                        inflight>>
  ELSE /\ rateLimitMap' = [rateLimitMap EXCEPT ![ip].count = @ + 1]
       /\ next

\* What neither the limiter nor /send-otp writes
limiterFrame ==
  <<wallet_transactions, processed_requests, waste_prices, argument, returned,
    recycling_requests>>

\* POST /send-otp behind the limiter, from two addresses, as the minutes pass
NextRateLimit ==
  \/ \E ip \in Ips, body \in SendOtpBodies, otp \in OtpCodes, sent \in BOOLEAN :
       rateLimit(ip, SendOtp(body, otp, sent)) /\ UNCHANGED <<limiterFrame, now>>
  \/ Tick(RATE_LIMIT_WINDOW) /\ UNCHANGED <<limiterFrame, rateLimitMap>>

SpecRateLimit == Init /\ [][NextRateLimit]_vars

----------------------------------------------------------------------------
(* Properties *)

DocsOf(log, userId) == { d \in DOMAIN log : log[d].userId = userId }

RECURSIVE SumAmounts(_, _)
SumAmounts(log, docs) ==
  IF docs = {} THEN 0
  ELSE LET d == CHOOSE x \in docs : TRUE
       IN log[d].amount + SumAmounts(log, docs \ {d})

\* The Refund transactions written for the withdrawal doc
RefundsOf(log, doc) ==
  { d \in DOMAIN log : log[d].type = "Refund" /\ log[d].relatedTo = doc }

\* The Recycle Credit transactions written for requestId
CreditsOf(log, requestId) ==
  { d \in DOMAIN log : log[d].type = "Recycle Credit" /\ log[d].relatedRequest = requestId }

RequestIds == { body.requestId : body \in CompletionBodies }

\* C1 as stated: every user's walletBalance is the sum of the amounts of the
\* user's completed transactions plus the amounts of the user's pending ones.
C1_BalanceIsCompletedPlusPending ==
  \A u \in DOMAIN users :
    walletBalance(u) =
      SumAmounts(wallet_transactions,
                 { d \in DocsOf(wallet_transactions, u) :
                     wallet_transactions[d].status \in {"completed", "pending"} })

\* C1 amended: every user's walletBalance is the sum of the amounts of all the
\* user's transactions, the failed ones included (a refunded withdrawal stays in
\* the log as failed and its Refund transaction offsets it).
C1_BalanceIsSumOfAllTransactions ==
  \A u \in DOMAIN users :
    walletBalance(u) = SumAmounts(wallet_transactions, DocsOf(wallet_transactions, u))

\* A withdrawal has failed and has been refunded.
C1_Witness ==
  \E d \in Docs :
    /\ wallet_transactions[d].type = "Withdraw"
    /\ wallet_transactions[d].status = "failed"
    /\ RefundsOf(wallet_transactions, d) # {}

\* C2: every user's walletBalance is >= 0 in every reachable state.
C2_BalanceNeverNegative ==
  \A u \in DOMAIN users : walletBalance(u) >= 0

\* C3: called one after the other, a completion whose requestId has already been
\* credited is answered Already processed and leaves the balance, the
\* accumulators, the transaction log and the idempotency records unchanged; no
\* requestId is ever credited twice.
C3_CompletionIsIdempotent ==
  /\ [][\A body \in CompletionBodies :
          ( /\ RequestCompleted(body)
            /\ CompletionGuard(body.before, body.after)
            /\ CreditsOf(wallet_transactions, body.requestId) # {} )
          => ( /\ response' = Response(200, "Already processed")
               /\ UNCHANGED <<ledger, inflight>> )]_vars
  /\ [](\A r \in RequestIds : Cardinality(CreditsOf(wallet_transactions, r)) <= 1)

\* A credited request has been delivered again and answered Already processed.
C3_Witness ==
  /\ response = Response(200, "Already processed")
  /\ \E r \in RequestIds : Cardinality(CreditsOf(wallet_transactions, r)) = 1

\* C4: under every interleaving of two deliveries of the same requestId, at most
\* one Recycle Credit is applied for that requestId.
C4_OneCreditPerRequest ==
  \A r \in RequestIds : Cardinality(CreditsOf(wallet_transactions, r)) < 2

\* C5: with the callbacks processed one after the other, a withdrawal has one
\* Refund transaction, of its absolute amount, when it is failed and none
\* otherwise; the step that fails it raises the owner's balance by that amount;
\* and once it is failed no later step refunds it again or changes its status.
C5_AtMostOneRefund ==
  /\ [](\A d \in Docs :
          wallet_transactions[d].type = "Withdraw" =>
            /\ Cardinality(RefundsOf(wallet_transactions, d)) =
                 (IF wallet_transactions[d].status = "failed" THEN 1 ELSE 0)
            /\ \A r \in RefundsOf(wallet_transactions, d) :
                 wallet_transactions[r].amount = abs(wallet_transactions[d].amount))
  /\ [][\A d \in Docs :
          /\ (wallet_transactions[d].status = "pending" /\ wallet_transactions'[d].status = "failed")
               => users'[wallet_transactions[d].userId].walletBalance =
                    walletBalance(wallet_transactions[d].userId) + abs(wallet_transactions[d].amount)
          /\ wallet_transactions[d].status = "failed"
               => /\ wallet_transactions'[d].status = "failed"
                  /\ RefundsOf(wallet_transactions', d) = RefundsOf(wallet_transactions, d)]_vars

\* A withdrawal has been refunded and a later callback has found nothing to resolve.
C5_Witness ==
  /\ response = Response(200, "No matching transaction found")
  /\ \E d \in Docs :
       /\ wallet_transactions[d].type = "Withdraw"
       /\ wallet_transactions[d].status = "failed"
       /\ Cardinality(RefundsOf(wallet_transactions, d)) = 1

\* C6: under every interleaving of the callbacks, a withdrawal is refunded at
\* most once and is never both completed and refunded.
C6_ResolvedAtMostOnce ==
  \A d \in Docs :
    wallet_transactions[d].type = "Withdraw" =>
      /\ Cardinality(RefundsOf(wallet_transactions, d)) <= 1
      /\ ~(wallet_transactions[d].status = "completed" /\ RefundsOf(wallet_transactions, d) # {})

Rejected(body) ==
  /\ response' = Response(500, body)
  /\ UNCHANGED <<users, wallet_transactions>>

\* C7: a valid /withdraw or /b2c request of an existing user for more than the
\* user's walletBalance is answered 500 Insufficient balance and leaves the users
\* and the transaction log unchanged.
C7_DebitRejectsOverdraft ==
  [][/\ \A userId \in DOMAIN users, amount \in WithdrawAmounts :
          (Withdraw(userId, amount) /\ amount > 0 /\ amount > walletBalance(userId))
            => Rejected("Insufficient balance")
     /\ \A body \in B2CBodies :
          ( /\ B2C(body.user_id, body.phone, body.amount)
            /\ body.user_id \in DOMAIN users
            /\ Len(body.phone) >= 10
            /\ body.amount > 0
            /\ body.amount > walletBalance(body.user_id) )
            => Rejected("Insufficient balance")]_vars

\* A debit has been turned away although the user holds a positive balance.
C7_Witness ==
  /\ response = Response(500, "Insufficient balance")
  /\ \E u \in DOMAIN users : walletBalance(u) > 0

\* The step takes amount from userId's balance and appends one Withdraw
\* transaction of -amount with the given status.
Debited(userId, amount, status) ==
  /\ users'[userId].walletBalance = walletBalance(userId) - amount
  /\ Len(wallet_transactions') = Len(wallet_transactions) + 1
  /\ SubSeq(wallet_transactions', 1, Len(wallet_transactions)) = wallet_transactions
  /\ LET tx == wallet_transactions'[Len(wallet_transactions')]
     IN /\ tx.userId = userId
        /\ tx.type = "Withdraw"
        /\ tx.amount = -amount
        /\ tx.status = status

\* C8: a /withdraw (a /b2c) of amount a with 0 < a <= balance takes exactly a
\* from the balance and appends exactly one Withdraw transaction of -a with
\* status completed (pending); no step appends a Withdraw transaction without
\* taking its amount from the owner's balance.
C8_DebitCommitsTogether ==
  [][/\ \A userId \in DOMAIN users, amount \in WithdrawAmounts :
          (Withdraw(userId, amount) /\ 0 < amount /\ amount <= walletBalance(userId))
            => Debited(userId, amount, "completed")
     /\ \A body \in B2CBodies :
          ( /\ B2C(body.user_id, body.phone, body.amount)
            /\ body.user_id \in DOMAIN users
            /\ Len(body.phone) >= 10
            /\ 0 < body.amount
            /\ body.amount <= walletBalance(body.user_id) )
            => Debited(body.user_id, body.amount, "pending")
     /\ \A d \in DOMAIN wallet_transactions' \ Docs :
          wallet_transactions'[d].type = "Withdraw" =>
            Debited(wallet_transactions'[d].userId, -wallet_transactions'[d].amount,
                    wallet_transactions'[d].status)]_vars

\* Both kinds of debit are in the log.
C8_Witness ==
  /\ \E d \in Docs :
       wallet_transactions[d].type = "Withdraw" /\ wallet_transactions[d].status = "completed"
         /\ ~Has(wallet_transactions[d], "method")
  /\ \E d \in Docs :
       wallet_transactions[d].type = "Withdraw" /\ wallet_transactions[d].status = "pending"

\* C9: under every interleaving, each step changes every user's walletBalance by
\* exactly the sum of the amounts of the transactions the step appends for that
\* user (no committed change is lost or overwritten), and a Withdraw transaction
\* is only appended for an amount the owner's balance covers at that step.
C9_NoLostUpdate ==
  [][/\ \A u \in DOMAIN users :
          users'[u].walletBalance - walletBalance(u) =
            SumAmounts(wallet_transactions',
                       { d \in DocsOf(wallet_transactions', u) : d > Len(wallet_transactions) })
     /\ \A d \in DOMAIN wallet_transactions' \ Docs :
          wallet_transactions'[d].type = "Withdraw" =>
            -wallet_transactions'[d].amount <= walletBalance(wallet_transactions'[d].userId)]_vars

\* A refund and a credit of the same user are suspended together, with a
\* withdrawal of that user pending, after a debit was turned away.
C9_Witness ==
  /\ \E c1, c2 \in BagToSet(inflight) :
       /\ c1.op = "b2cResult" /\ c1.result.ResultCode # 0
       /\ c2.op = "requestCompleted" /\ c2.userId = c1.tx.userId
  /\ \E d \in Docs : wallet_transactions[d].status = "pending"
  /\ response = Response(500, "Insufficient balance")

\* The phone and the amount the well-formed payloads of CallbackBodies report.
ReportedByCallback ==
  << <<PhoneA, 1>>, <<PhoneA, 2>>, <<PhoneA, 1>>, <<PhoneA, 2>>, <<PhoneB, 1>>, <<PhoneB, 2>> >>

\* C10: a callback is matched with a pending withdrawal of the reported phone and
\* of the reported absolute amount whenever there is one, and the handler then
\* changes that transaction only: every other transaction, in particular a
\* pending one of the same phone and another amount, is left as it was.
C10_CallbackCorrelation ==
  [][/\ \A i \in 1..Len(ReportedByCallback) :
          B2CResult(CallbackBodies[i]) =>
            LET phone == ReportedByCallback[i][1]
                amount == ReportedByCallback[i][2]
                matching == { d \in Docs :
                                /\ wallet_transactions[d].type = "Withdraw"
                                /\ wallet_transactions[d].status = "pending"
                                /\ Has(wallet_transactions[d], "phone")
                                /\ wallet_transactions[d].phone = phone
                                /\ abs(wallet_transactions[d].amount) = amount }
            IN IF matching = {} THEN UNCHANGED <<ledger, inflight>>
               ELSE \E d \in matching :
                      \E call \in BagToSet(inflight') :
                        /\ call.op = "b2cResult"
                        /\ call.doc = d
                        /\ CopiesIn(call, inflight') = CopiesIn(call, inflight) + 1
     /\ \A d \in Docs :
          wallet_transactions'[d] # wallet_transactions[d] =>
            /\ \E call \in BagToSet(inflight) :
                 /\ call.op = "b2cResult"
                 /\ call.doc = d
                 /\ CopiesIn(call, inflight') = CopiesIn(call, inflight) - 1
                 /\ wallet_transactions[d].phone = call.phoneNumber
                 /\ abs(wallet_transactions[d].amount) = call.callbackAmount
            /\ \A e \in Docs \ {d} : wallet_transactions'[e] = wallet_transactions[e]]_vars

\* Of two withdrawals of one phone and different amounts, one has been resolved
\* by a callback and the other is still pending.
C10_Witness ==
  \E d, e \in Docs :
    /\ wallet_transactions[d].type = "Withdraw" /\ wallet_transactions[e].type = "Withdraw"
    /\ Has(wallet_transactions[d], "phone") /\ Has(wallet_transactions[e], "phone")
    /\ wallet_transactions[d].phone = wallet_transactions[e].phone
    /\ abs(wallet_transactions[d].amount) # abs(wallet_transactions[e].amount)
    /\ Has(wallet_transactions[d], "mpesaMeta")
    /\ wallet_transactions[d].status \in {"completed", "failed"}
    /\ wallet_transactions[e].status = "pending"

\* C11: a payout callback resolves at most one transaction: when the store
\* applies an update that a callback sent for one of the pending withdrawals it
\* matched, every other withdrawal that callback matched is still pending.
C11_CallbackResolvesOne ==
  [][\A call \in BagToSet(inflight) : \A doc \in Docs :
       LegacyB2CResultUpdate(call, doc) =>
         \A e \in call.matched \ {doc} : wallet_transactions'[e].status = "pending"]_vars

\* C12: a well-formed callback for which no pending Withdraw transaction has the
\* reported phone and the reported absolute amount (none for the phone, none of
\* that amount, or only resolved ones) is answered 200 and changes no balance,
\* no transaction, no idempotency record, and starts no resolution.
C12_UnmatchedCallbackIsNoOp ==
  [][\A i \in 1..Len(ReportedByCallback) :
       ( /\ B2CResult(CallbackBodies[i])
         /\ \A d \in Docs :
              ~( /\ wallet_transactions[d].type = "Withdraw"
                 /\ wallet_transactions[d].status = "pending"
                 /\ Has(wallet_transactions[d], "phone")
                 /\ wallet_transactions[d].phone = ReportedByCallback[i][1]
                 /\ abs(wallet_transactions[d].amount) = ReportedByCallback[i][2] ) )
       => /\ response'.status = 200
          /\ response'.body \in {"No matching transaction found", "B2C result processed"}
          /\ UNCHANGED <<ledger, waste_prices, inflight>>]_vars

\* A withdrawal has been completed by a success callback, and a later callback
\* for its phone has found nothing to resolve.
C12_Witness ==
  /\ response = Response(200, "No matching transaction found")
  /\ inflight = EmptyBag
  /\ \E d \in Docs :
       /\ wallet_transactions[d].type = "Withdraw"
       /\ wallet_transactions[d].status = "completed"
       /\ Has(wallet_transactions[d], "mpesaMeta")

\* C13: a withdrawal that carries a gateway report (mpesaMeta) is completed only
\* if the report is a success (ResultCode 0), and is failed and refunded if the
\* report is a failure.
C13_ResolutionFollowsReport ==
  \A d \in Docs :
    (wallet_transactions[d].type = "Withdraw" /\ Has(wallet_transactions[d], "mpesaMeta")) =>
      /\ wallet_transactions[d].status = "completed"
           => wallet_transactions[d].mpesaMeta.ResultCode = 0
      /\ wallet_transactions[d].mpesaMeta.ResultCode # 0
           => /\ wallet_transactions[d].status = "failed"
              /\ RefundsOf(wallet_transactions, d) # {}

\* C14: the transaction of a success callback sets the matched transaction's
\* status to completed and its mpesaMeta to the gateway's result and changes
\* nothing else: the transaction's other fields, every other transaction, the
\* number of transactions, every user and every idempotency record stay as
\* they were.
C14_FinalizeFrame ==
  [][\A call \in BagToSet(inflight) :
       (B2CResultResolve(call) /\ call.result.ResultCode = 0) =>
         LET before == wallet_transactions[call.doc]
             after == wallet_transactions'[call.doc]
         IN /\ UNCHANGED <<users, processed_requests, waste_prices>>
            /\ Len(wallet_transactions') = Len(wallet_transactions)
            /\ \A e \in Docs \ {call.doc} : wallet_transactions'[e] = wallet_transactions[e]
            /\ after.status = "completed"
            /\ after.mpesaMeta = call.result
            /\ DOMAIN after = DOMAIN before \cup {"status", "mpesaMeta"}
            /\ \A f \in DOMAIN before \ {"status", "mpesaMeta"} : after[f] = before[f]]_vars

\* A success callback has completed a withdrawal while another transaction of
\* the user is in the log and the user holds a balance.
C14_Witness ==
  /\ response = Response(200, "B2C result processed")
  /\ \E d \in Docs :
       /\ wallet_transactions[d].type = "Withdraw"
       /\ wallet_transactions[d].status = "completed"
       /\ Has(wallet_transactions[d], "mpesaMeta")
       /\ wallet_transactions[d].mpesaMeta.ResultCode = 0
       /\ RefundsOf(wallet_transactions, d) = {}
       /\ walletBalance(wallet_transactions[d].userId) > 0
       /\ \E e \in Docs \ {d} : wallet_transactions[e].type = "Recycle Credit"

\* C15: the transaction of a failure callback on a matched Withdraw of amount -a
\* does three things in one step: it raises the owner's walletBalance by a
\* (nothing else of any user changes), it sets the withdrawal's status to
\* failed, and it appends exactly one transaction, of type Refund, status
\* completed, amount a, for the same user, with relatedTo the withdrawal's id.
C15_RefundEffect ==
  [][\A call \in BagToSet(inflight) :
       (B2CResultResolve(call) /\ call.result.ResultCode # 0) =>
         LET original == wallet_transactions[call.doc]
             a == -original.amount
             refund == wallet_transactions'[Len(wallet_transactions')]
         IN /\ original.type = "Withdraw" /\ a > 0
            /\ users' = [users EXCEPT ![original.userId].walletBalance = @ + a]
            /\ wallet_transactions'[call.doc].status = "failed"
            /\ Len(wallet_transactions') = Len(wallet_transactions) + 1
            /\ \A e \in Docs \ {call.doc} : wallet_transactions'[e] = wallet_transactions[e]
            /\ refund.type = "Refund"
            /\ refund.status = "completed"
            /\ refund.amount = a
            /\ refund.userId = original.userId
            /\ refund.relatedTo = call.doc
            /\ UNCHANGED processed_requests]_vars

\* The withdrawal of 2 has been refunded: the last transaction is its Refund
\* and the owner holds the 2 again.
C15_Witness ==
  /\ wallet_transactions # <<>>
  /\ LET refund == wallet_transactions[Len(wallet_transactions)]
     IN /\ refund.type = "Refund"
        /\ refund.amount = 2
        /\ wallet_transactions[refund.relatedTo].status = "failed"
        /\ wallet_transactions[refund.relatedTo].amount = -2
        /\ walletBalance(refund.userId) >= 2

\* C16: terminal statuses are final: no step changes the status of a transaction
\* that is completed or failed.
C16_TerminalStatusIsFinal ==
  [][\A d \in Docs :
       wallet_transactions[d].status \in {"completed", "failed"} =>
         wallet_transactions'[d].status = wallet_transactions[d].status]_vars

\* The payloads of CallbackBodies that lack a correlation field: no amount
\* parameter, no phone parameter, no ResultParameter list, no ResultParameters,
\* no Result.
MalformedCallbacks == (Len(ReportedByCallback) + 1)..Len(CallbackBodies)

\* C17: a callback whose payload lacks a required correlation field is answered
\* 400 and changes no stored state and starts no resolution.
C17_MalformedCallbackRejected ==
  [][\A i \in MalformedCallbacks :
       B2CResult(CallbackBodies[i]) =>
         /\ response'.status = 400
         /\ UNCHANGED <<ledger, waste_prices, inflight>>]_vars

\* C18: processed_requests holds the record of a requestId exactly when a
\* Recycle Credit transaction with relatedRequest = requestId is in the log.
C18_RecordIffCredited ==
  \A r \in RequestIds : r \in processed_requests <=> CreditsOf(wallet_transactions, r) # {}

\* C19: a wallet operation that fails leaves nothing of itself behind.  A debit
\* turned away and a credit whose user has no document change no ledger
\* document; and when the store rejects the log entry of a credit, the step
\* leaves the user without that credit's balance and accumulator increments.
C19_FailureLeavesNothing ==
  [][/\ \A body \in LegacyB2CBodies :
          (LegacyB2C(body.user_id, body.phone, body.amount) /\ response'.status # 200)
            => UNCHANGED ledger
     /\ \A call \in BagToSet(inflight) :
          (onRequestCompletedUpdate(call) /\ call.userId \notin DOMAIN users)
            => UNCHANGED ledger
     /\ \A call \in BagToSet(inflight) :
          onRequestCompletedAdd(call, FALSE) =>
            /\ users' = [users EXCEPT
                 ![call.userId] =
                    [walletBalance |-> @.walletBalance - call.amount,
                     recycledWeight |-> @.recycledWeight - call.weight,
                     pointsEarned |-> @.pointsEarned - call.weight,
                     co2Saved |-> @.co2Saved - 3 * call.weight]]
            /\ UNCHANGED <<wallet_transactions, processed_requests>>]_vars

\* C20: the transaction that credits an existing user for weight w of a type
\* priced p raises walletBalance by w * p, recycledWeight by w, pointsEarned by
\* w / 50 (w fiftieths) and co2Saved by 1.5 * w (3 * w halves), leaves every
\* other user and transaction as it was, and appends one completed Recycle
\* Credit transaction of amount w * p for that user and request.
C20_CreditEffect ==
  [][\A call \in BagToSet(inflight) :
       (RequestCompletedCredit(call) /\ call.userId \in DOMAIN users) =>
         LET w == call.weight
             p == waste_prices[call.normalized]
             credit == wallet_transactions'[Len(wallet_transactions')]
         IN /\ users' = [users EXCEPT
                 ![call.userId] =
                    [walletBalance |-> @.walletBalance + w * p,
                     recycledWeight |-> @.recycledWeight + w,
                     pointsEarned |-> @.pointsEarned + w,
                     co2Saved |-> @.co2Saved + 3 * w]]
            /\ Len(wallet_transactions') = Len(wallet_transactions) + 1
            /\ SubSeq(wallet_transactions', 1, Len(wallet_transactions)) = wallet_transactions
            /\ credit.type = "Recycle Credit"
            /\ credit.status = "completed"
            /\ credit.amount = w * p
            /\ credit.userId = call.userId
            /\ credit.relatedRequest = call.requestId
            /\ response' = Response(200, "success")]_vars

\* The completion of weight 1 at price 3 has been credited to a new user.
C20_Witness ==
  /\ response = Response(200, "success")
  /\ \E u \in DOMAIN users :
       /\ users[u] = [walletBalance |-> 3, recycledWeight |-> 1, pointsEarned |-> 1, co2Saved |-> 3]
       /\ \E d \in DocsOf(wallet_transactions, u) :
            /\ wallet_transactions[d].type = "Recycle Credit"
            /\ wallet_transactions[d].amount = 3
            /\ wallet_transactions[d].weight = 1

\* C21: every Recycle Credit transaction in the log has a strictly positive
\* amount.
C21_CreditAmountPositive ==
  \A d \in Docs :
    wallet_transactions[d].type = "Recycle Credit" => wallet_transactions[d].amount > 0

\* C22: a completion whose normalized waste type has no waste_prices document
\* is answered 400 Waste price not found and changes no user, transaction or
\* idempotency record; a delivery whose requestId has no idempotency record goes
\* on to the price lookup, and with the price present goes on to the credit of
\* weight * pricePerKg.
C22_PriceNotFoundLeavesNothing ==
  [][/\ \A call \in BagToSet(inflight) :
          (RequestCompletedPrice(call) /\ call.normalized \notin DOMAIN waste_prices)
            => /\ response' = Response(400, "Waste price not found")
               /\ UNCHANGED ledger
               /\ \A c \in BagToSet(inflight') : CopiesIn(c, inflight') <= CopiesIn(c, inflight)
     /\ \A body \in CompletionBodies :
          ( /\ RequestCompletedProcessed(body)
            /\ CompletionGuard(body.before, body.after)
            /\ body.requestId \notin processed_requests )
            => \E c \in BagToSet(inflight') :
                 /\ c.op = "requestCompletedPrice"
                 /\ c.requestId = body.requestId
                 /\ CopiesIn(c, inflight') = CopiesIn(c, inflight) + 1
     /\ \A call \in BagToSet(inflight) :
          (RequestCompletedPrice(call) /\ call.normalized \in DOMAIN waste_prices)
            => \E c \in BagToSet(inflight') :
                 /\ c.op = "requestCompleted"
                 /\ c.requestId = call.requestId
                 /\ c.amount = call.weight * waste_prices[call.normalized]
                 /\ CopiesIn(c, inflight') = CopiesIn(c, inflight) + 1]_vars

\* A completion of tins was answered Waste price not found, the price of Tins
\* has been added since, and a later delivery of tins is about to be credited.
C22_Witness ==
  /\ response = Response(400, "Waste price not found")
  /\ processed_requests = {}
  /\ \E call \in BagToSet(inflight) :
       /\ call.op = "requestCompleted"
       /\ call.normalized = Tins
       /\ call.requestId = "r1"
       /\ call.amount = TinsPricePerKg

\* The guard as the claim words it, on a body that has before and after.
GuardAsStated(body) ==
  /\ body.before.status # "completed"
  /\ body.after.status = "completed"
  /\ body.after.weight # 0
  /\ body.after.userId # ""
  /\ body.after.wasteType # <<>>

\* C23: for a body that has before, after and requestId, the handler answers No
\* update needed and changes no stored state unless before.status is not
\* completed, after.status is completed and weight, userId and wasteType are
\* present (and not 0 or empty); and no step of the handler changes a user, a
\* transaction or an idempotency record for a completion that fails this test.
C23_CompletionGuard ==
  [][/\ \A body \in CompletionBodies :
          (~GuardAsStated(body) /\ RequestCompleted(body))
            => /\ response' = Response(200, "No update needed")
               /\ UNCHANGED <<ledger, waste_prices, inflight>>
     /\ ledger' # ledger =>
          \A call \in BagToSet(inflight) :
            RequestCompletedCredit(call) =>
              \E body \in CompletionBodies :
                /\ GuardAsStated(body)
                /\ body.requestId = call.requestId
                /\ body.after.userId = call.userId
                /\ body.after.weight = call.weight]_vars

\* A change that is not a completion was answered No update needed after a
\* completion had been credited.
C23_Witness ==
  /\ response = Response(200, "No update needed")
  /\ wallet_transactions # <<>>
  /\ processed_requests # {}

\* C24: a wallet transaction, once created, is never deleted, and every field
\* of it other than status and mpesaMeta (its amount, userId and type among
\* them) keeps its value in every step.
C24_TransactionsImmutable ==
  [][\A d \in Docs :
       /\ d \in DOMAIN wallet_transactions'
       /\ \A f \in (DOMAIN wallet_transactions[d]) \ {"status", "mpesaMeta"} :
            /\ f \in DOMAIN wallet_transactions'[d]
            /\ wallet_transactions'[d][f] = wallet_transactions[d][f]]_vars

\* A payout withdrawal of 2 has been marked failed with the gateway's result
\* and still carries its phone and method.
C24_Witness ==
  \E d \in Docs :
    /\ wallet_transactions[d].type = "Withdraw"
    /\ wallet_transactions[d].amount = -2
    /\ wallet_transactions[d].userId = "u1"
    /\ wallet_transactions[d].status = "failed"
    /\ Has(wallet_transactions[d], "mpesaMeta")
    /\ Has(wallet_transactions[d], "phone")
    /\ wallet_transactions[d].method = "B2C"

\* C25: the accumulators recycledWeight, pointsEarned and co2Saved of a user
\* never decrease: every step leaves each of them at least as large as it was.
C25_AccumulatorsMonotonic ==
  [][\A u \in DOMAIN users :
       /\ u \in DOMAIN users'
       /\ users'[u].recycledWeight >= users[u].recycledWeight
       /\ users'[u].pointsEarned >= users[u].pointsEarned
       /\ users'[u].co2Saved >= users[u].co2Saved]_vars

\* The response reports that the user was not found.
NotFound(r) == r.status = 404 \/ r.body = "User not found"

\* C26: a debit (POST /withdraw, POST /b2c, the callable withdraw) of a
\* positive amount on a userId that has no users document fails with NotFound,
\* and leaves the set of user records, the transaction log and every other
\* stored document as they were.
C26_DebitOnMissingUser ==
  [][/\ \A userId \in UserIds \ DOMAIN users, amount \in WithdrawAmounts :
          (amount > 0 /\ (Withdraw(userId, amount) \/ withdraw(userId, amount)))
            => NotFound(response') /\ UNCHANGED ledger
     /\ \A body \in B2CBodies :
          (/\ body.user_id \notin DOMAIN users
           /\ body.amount > 0
           /\ Len(body.phone) >= 10
           /\ B2C(body.user_id, body.phone, body.amount))
            => NotFound(response') /\ UNCHANGED ledger]_vars

\* The pending withdrawal logged by the /b2c handler that is suspended as call
Reserved(call) ==
  { d \in Docs :
      /\ wallet_transactions[d].type = "Withdraw"
      /\ wallet_transactions[d].userId = call.user_id
      /\ wallet_transactions[d].amount = -call.amount
      /\ Has(wallet_transactions[d], "phone")
      /\ wallet_transactions[d].phone = call.phone }

\* C27: in /b2c the debit is committed before the payout service is called:
\* whenever the call is attempted the withdrawal is in the log; a payout call
\* that fails (error reply, network error) changes no stored document, so the
\* withdrawal keeps its status (pending, until a callback resolves it) and the
\* balance stays decremented; and the status of a transaction changes only in
\* the resolution of a callback that names its phone and its amount.
C27_DebitBeforePayout ==
  [][/\ \A call \in BagToSet(inflight), payoutResult \in PayoutResults :
          B2CPayout(call, payoutResult) =>
            /\ Reserved(call) # {}
            /\ UNCHANGED ledger
            /\ response'.status = 200
            /\ response'.payout = payoutResult
     /\ \A call \in BagToSet(inflight') \ BagToSet(inflight) :
          call.op = "b2cPayout" =>
            \E d \in DOMAIN wallet_transactions' \ Docs :
              /\ wallet_transactions'[d] = B2CTx(call.user_id, call.phone, call.amount)
              /\ users'[call.user_id].walletBalance = walletBalance(call.user_id) - call.amount
     /\ \A d \in Docs :
          wallet_transactions'[d].status # wallet_transactions[d].status =>
            \E call \in BagToSet(inflight) :
              /\ B2CResultResolve(call)
              /\ call.doc = d
              /\ call.phoneNumber = wallet_transactions[d].phone
              /\ call.callbackAmount = abs(wallet_transactions[d].amount)]_vars

\* A payout call has failed and its withdrawal of 2 is still pending, with the
\* balance decremented from 3 to 1.
C27_Witness ==
  /\ response = PayoutResponse([success |-> FALSE, error |-> "fetch failed"])
  /\ inflight = EmptyBag
  /\ Len(wallet_transactions) = 2
  /\ wallet_transactions[2] = B2CTx("u1", PhoneA, 2)
  /\ walletBalance("u1") = 1

\* C28: a malformed request (an amount <= 0 or a phone the schema refuses for
\* /withdraw and /b2c, a body without before, after or requestId for
\* /request-completed) is answered 400 and changes no stored document and
\* starts no transaction.
C28_MalformedRequestRejected ==
  [][/\ \A userId \in UserIds, amount \in WithdrawAmounts :
          (amount <= 0 /\ Withdraw(userId, amount))
            => response'.status = 400 /\ UNCHANGED <<ledger, inflight>>
     /\ \A body \in B2CBodies :
          ((body.amount <= 0 \/ Len(body.phone) < 10)
             /\ B2C(body.user_id, body.phone, body.amount))
            => response'.status = 400 /\ UNCHANGED <<ledger, inflight>>
     /\ \A body \in MalformedCompletionBodies :
          RequestCompleted(body)
            => response'.status = 400 /\ UNCHANGED <<ledger, inflight>>]_vars

\* The completions of CompletionBodies that pass the guard
Completions == { body \in CompletionBodies : CompletionGuard(body.before, body.after) }

\* The completion passes the guard and its normalized waste type has no price.
Unpriced(body) ==
  /\ body \in Completions
  /\ normalizeWasteType(body.after.wasteType) \notin DOMAIN waste_prices

\* C29 as stated: a completion that passes the guard and whose normalized waste
\* type has no price is answered Waste price not found whether or not its
\* requestId was already processed, so that Already processed is answered only
\* to completions whose price exists.
C29_PriceBeforeIdempotency ==
  [][\A body \in Completions :
       (Unpriced(body) /\ RequestCompleted(body))
         => response' = Response(400, "Waste price not found")]_vars

\* C29: the idempotency record is consulted before the price: a completion that
\* passes the guard and whose requestId is already processed is answered
\* Already processed whether or not its normalized waste type has a price, and
\* Waste price not found is answered only to completions whose requestId is
\* not yet processed; neither changes stored state.
C29_IdempotencyBeforePrice ==
  [][\A body \in Completions :
       IF body.requestId \in processed_requests
         THEN RequestCompleted(body)
                => /\ response' = Response(200, "Already processed")
                   /\ UNCHANGED <<ledger, inflight>>
         ELSE (Unpriced(body) /\ RequestCompleted(body))
                => /\ response' = Response(400, "Waste price not found")
                   /\ UNCHANGED <<ledger, inflight>>]_vars

\* Request r1 was credited as Plastics and a later delivery of r1 was answered
\* Already processed while Tins, the type of another delivery of r1, has no
\* price.
C29_Witness ==
  /\ response = Response(200, "Already processed")
  /\ "r1" \in processed_requests
  /\ Tins \notin DOMAIN waste_prices
  /\ \E body \in CompletionBodies : body.requestId = "r1" /\ Unpriced(body)
  /\ \E d \in CreditsOf(wallet_transactions, "r1") : wallet_transactions[d].wasteType = Plastics

\* C30: normalizeWasteType yields a canonical form: applied to what it returned
\* for a non-empty string (white space only and the single letter s included),
\* it returns that string unchanged.
C30_NormalizeIdempotent ==
  Len(returned) = 2 => returned[2] = returned[1]

\* C31: a /b2c debit followed by the failure callback that matches it is a
\* round trip on the balance: the step that logs a pending withdrawal of a
\* lowers the owner's walletBalance by a, the step that logs its Refund raises
\* it by a, and whenever the Refund directly follows its withdrawal at the end
\* of the log (no other wallet operation in between or since) the balance is
\* the sum of the amounts logged for the user before the withdrawal, its value
\* before the /b2c call.
C31_DebitRefundRoundTrip ==
  /\ [][Len(wallet_transactions') = Len(wallet_transactions) + 1 =>
          LET t == wallet_transactions'[Len(wallet_transactions')]
          IN /\ (t.type = "Withdraw" /\ t.status = "pending") =>
                  /\ t.amount < 0
                  /\ users'[t.userId].walletBalance = walletBalance(t.userId) + t.amount
             /\ t.type = "Refund" =>
                  /\ wallet_transactions[t.relatedTo].type = "Withdraw"
                  /\ wallet_transactions[t.relatedTo].userId = t.userId
                  /\ users'[t.userId].walletBalance =
                       walletBalance(t.userId) - wallet_transactions[t.relatedTo].amount]_vars
  /\ [](LET n == Len(wallet_transactions)
        IN (/\ n >= 2
            /\ wallet_transactions[n].type = "Refund"
            /\ wallet_transactions[n].relatedTo = n - 1) =>
             walletBalance(wallet_transactions[n].userId) =
               SumAmounts(wallet_transactions,
                          DocsOf(wallet_transactions, wallet_transactions[n].userId)
                            \cap (1..(n - 2))))

\* A balance of 3 was debited by 2 through /b2c, the payout failed, and the
\* refund that directly follows the withdrawal has brought the balance back to 3.
C31_Witness ==
  /\ Len(wallet_transactions) = 3
  /\ wallet_transactions[1].type = "Recycle Credit"
  /\ wallet_transactions[1].amount = 3
  /\ wallet_transactions[2].type = "Withdraw"
  /\ wallet_transactions[2].amount = -2
  /\ wallet_transactions[2].status = "failed"
  /\ wallet_transactions[3].type = "Refund"
  /\ wallet_transactions[3].relatedTo = 2
  /\ walletBalance("u1") = 3

\* C32 as stated: for every phone P that /b2c accepts, the phone stored on the
\* pending withdrawal is the phone the callback handler extracts from tel:P.
C32_StoredPhoneIsExtractedPhone ==
  (Len(returned) = 2 /\ returned[2].names = "posted") => returned[2].phoneNumber = returned[1]

\* C32: for every phone P that /b2c accepts, the phone stored on the pending
\* withdrawal is the 254XXXXXXXXX form of P, which is also what the payout
\* service is sent; the callback handler extracts from tel:N the string N as it
\* is, so it finds the withdrawal when the callback names the phone the payout
\* service was sent, and when the callback names P itself only if P was posted
\* in the 254XXXXXXXXX form.
C32_StoredPhoneIsNormalized ==
  /\ Len(returned) >= 1 =>
       /\ Len(returned[1]) = 12
       /\ startsWith(returned[1], <<"2", "5", "4">>)
       /\ \E n \in Subscribers : returned[1] = <<"2", "5", "4">> \o n /\ argument \in PhoneForms(n)
  /\ Len(returned) = 2 =>
       /\ returned[2].names = "sent" => returned[2].phoneNumber = returned[1]
       /\ returned[2].names = "posted" =>
            /\ returned[2].phoneNumber = argument
            /\ (returned[2].phoneNumber = returned[1]) <=> startsWith(argument, <<"2", "5", "4">>)

\* A phone posted as 0700000002 was stored as 254700000002 and the callback
\* naming 254700000002 gave the same string.
C32_Witness ==
  /\ argument = <<"0", "7", "0", "0", "0", "0", "0", "0", "0", "2">>
  /\ returned = <<PhoneB, [names |-> "sent", phoneNumber |-> PhoneB]>>

\* C33: the callback handler answers 200 for a matched callback only after the
\* transition of the matched transaction has been committed: in the step that
\* sends the response every matched transaction is completed or failed.
C33_ResponseAfterCommit ==
  [][/\ \A call \in BagToSet(inflight) :
          B2CResultResolve(call) =>
            wallet_transactions'[call.doc].status \in {"completed", "failed"}
     /\ \A call \in BagToSet(inflight') :
          (/\ call.op = "legacyB2CResult"
           /\ call \notin BagToSet(inflight)
           /\ call.docs = call.matched
           /\ response'.status = 200) =>
            \A d \in call.matched :
              wallet_transactions'[d].status \in {"completed", "failed"}]_vars

RECURSIVE SumWeights(_, _)
SumWeights(requests, ids) ==
  IF ids = {} THEN 0
  ELSE LET r == CHOOSE x \in ids : TRUE
       IN requests[r].weight + SumWeights(requests, ids \ {r})

\* The weight of the user's completed recycling requests
CompletedWeight(userId) ==
  SumWeights(recycling_requests,
             { r \in DOMAIN recycling_requests :
                 /\ recycling_requests[r].userId = userId
                 /\ recycling_requests[r].status = "completed" })

\* C34: once every function invoked for a write has run, each user's
\* recycledWeight is the sum of the weights of the user's completed recycling
\* requests: one completion of weight w raises it by w in total.
C34_RecycledWeightIsCompletedWeight ==
  inflight = EmptyBag =>
    \A u \in DOMAIN users : users[u].recycledWeight = CompletedWeight(u)

\* The step leaves every user other than userId as it was: the user document
\* (walletBalance and accumulators) and the user's transactions.
OthersUnchanged(userId) ==
  \A other \in DOMAIN users \ {userId} :
    /\ other \in DOMAIN users'
    /\ users'[other] = users[other]
    /\ DocsOf(wallet_transactions', other) = DocsOf(wallet_transactions, other)
    /\ \A d \in DocsOf(wallet_transactions, other) :
         wallet_transactions'[d] = wallet_transactions[d]

\* C35: a /withdraw, a /b2c and a /request-completed for user A, and the
\* resolution of a callback for a transaction owned by A, leave the
\* walletBalance, the accumulators and the transactions of every other user
\* unchanged.
C35_OtherUsersUntouched ==
  [][/\ \A userId \in TwoUsers, amount \in WithdrawAmounts :
          Withdraw(userId, amount) => OthersUnchanged(userId)
     /\ \A body \in TwoUsersB2CBodies :
          B2C(body.user_id, body.phone, body.amount) => OthersUnchanged(body.user_id)
     /\ \A body \in TwoUsersCompletionBodies :
          RequestCompleted(body) => OthersUnchanged(body.after.userId)
     /\ \A call \in BagToSet(inflight) :
          /\ RequestCompletedCredit(call) => OthersUnchanged(call.userId)
          /\ B2CResultResolve(call) => OthersUnchanged(wallet_transactions[call.doc].userId)]_vars

\* u1's payout of 2 has been resolved as completed by its callback while u2
\* holds a credit of 3.
C35_Witness ==
  /\ walletBalance("u2") = 3
  /\ DocsOf(wallet_transactions, "u2") # {}
  /\ walletBalance("u1") = 1
  /\ \E d \in DocsOf(wallet_transactions, "u1") :
       /\ wallet_transactions[d].type = "Withdraw"
       /\ wallet_transactions[d].status = "completed"
       /\ Has(wallet_transactions[d], "mpesaMeta")

\* The phone's owner is the same before and after the step
OwnerKept(p) ==
  (p \in DOMAIN phone_numbers /\ Has(phone_numbers[p], "ownerUid"))
    => /\ p \in DOMAIN phone_numbers'
       /\ Has(phone_numbers'[p], "ownerUid")
       /\ phone_numbers'[p].ownerUid = phone_numbers[p].ownerUid

\* C36: a phone's ownerUid, once set, is never replaced or removed, and a
\* binding for a phone another user owns fails, with 409 from /reserve-phone
\* and without success from /verify-otp, leaving phone_numbers and users as
\* they were, in every interleaving of the two bindings.
C36_PhoneBindingUnique ==
  [][ /\ \A p \in DOMAIN phone_numbers : OwnerKept(p)
      /\ \A body \in ReservePhoneBodies :
           (/\ Len(body.phoneNumber) >= 10
            /\ OwnedByAnother(normalizeKenyanNumber(body.phoneNumber), body.userId)
            /\ ReservePhone(body))
             => /\ response'.status = 409
                /\ UNCHANGED <<phone_numbers, users>>
      /\ \A call \in BagToSet(inflight) :
           (/\ call.op = "verifyOtp"
            /\ call.pc = "bind"
            /\ OwnedByAnother(call.normalizedPhone, call.userId)
            /\ inflight' = Resume(call))
             => /\ response'.status \notin {0, 200}
                /\ UNCHANGED <<phone_numbers, users>> ]_vars

\* u1 owns the phone, u2's /reserve-phone was answered 409 while u2's
\* /verify-otp is about to bind the same phone
C36_Witness ==
  /\ PhoneA \in DOMAIN phone_numbers
  /\ phone_numbers[PhoneA].ownerUid = "u1"
  /\ users["u1"].phoneNumber = PhoneA
  /\ "u2" \notin DOMAIN users
  /\ response = Response(409, "Phone number already in use")
  /\ \E call \in BagToSet(inflight) : call.pc = "bind" /\ call.userId = "u2"

\* C37: an OTP is single-use: of the /verify-otp calls that read the OTP sent
\* last to a phone, at most one is answered with success, however they interleave.
C37_OtpSingleUse ==
  \A p \in DOMAIN otp_history : otp_history[p].verified <= 1

\* C38: at most 3 wrong codes are compared with one OTP, and once its
\* attempts counter has reached 3 no call that reads the OTP afterwards
\* verifies with it, in every interleaving of /verify-otp calls.
C38_GuessingCapped ==
  /\ [][ \A p \in DOMAIN otp_verifications :
           (otp_verifications[p].attempts >= 3 /\ p \in DOMAIN otp_history')
             => otp_history'[p].verified <= Issued(p).verified ]_vars
  /\ [](\A p \in DOMAIN otp_history : otp_history[p].wrong <= 3)

\* The /verify-otp bodies the schema accepts that name a phone whose OTP has expired
ExpiredBodies ==
  { body \in VerifyOtpBodies :
      /\ Len(body.phoneNumber) >= 10
      /\ Len(body.otp) = 6
      /\ normalizeKenyanNumber(body.phoneNumber) \in DOMAIN otp_verifications
      /\ now > otp_verifications[normalizeKenyanNumber(body.phoneNumber)].expiresAt }

\* The step is /verify-otp reading an expired OTP and going on to one of the outcomes
ExpiredOutcome(outcomes) ==
  \A body \in ExpiredBodies :
    VerifyOtp(body)
      => \E pc \in outcomes :
           inflight' =
             inflight (+) SetToBag({VerifyOtpCall(pc, normalizeKenyanNumber(body.phoneNumber), "")})

\* The step is the write of a call on one of the outcomes: the OTP record is
\* gone and the call is refused with the outcome's error
ExpiredWrite ==
  \A call \in BagToSet(inflight) :
    (call.op = "verifyOtp" /\ call.pc \in {"expired", "tooMany"} /\ VerifyOtpWrite(call))
      => /\ call.normalizedPhone \notin DOMAIN otp_verifications'
         /\ response' =
              IF call.pc = "expired" THEN Response(400, "OTP expired")
              ELSE Response(400, "Too many failed attempts. Please request a new OTP.")

\* C39 as stated: a /verify-otp call that reads an OTP after its expiresAt
\* is answered OTP expired, whatever its code, and deletes the OTP record.
C39_ExpiredOtpAnswersExpired ==
  [][ExpiredOutcome({"expired"}) /\ ExpiredWrite]_vars

\* C39 amended: a /verify-otp call that reads an OTP after its expiresAt never
\* verifies, whatever its code: it deletes the OTP record and is answered
\* OTP expired, or Too many failed attempts when attempts has reached 3.
C39_ExpiredOtpNeverVerifies ==
  [][ExpiredOutcome({"expired", "tooMany"}) /\ ExpiredWrite]_vars

\* The OTP sent at 0 was read after its expiry by a call that was answered OTP
\* expired; no wrong code was compared with it, and its record is deleted
C39_Witness ==
  /\ now > OTP_LIFETIME
  /\ PhoneA \in DOMAIN otp_history
  /\ otp_history[PhoneA] = [wrong |-> 0, verified |-> 0]
  /\ PhoneA \notin DOMAIN otp_verifications
  /\ inflight = EmptyBag
  /\ response = Response(400, "OTP expired")

\* ip has a window that has not ended
InWindow(ip) == ip \in DOMAIN rateLimitMap /\ now <= rateLimitMap[ip].resetTime

\* C40: the limiter passes on at most 5 requests per address and window: a
\* request in a running window is counted and passed on while fewer than 5
\* were, and otherwise answered 429 with the counter and everything the handler
\* writes left as they are; a request outside a window starts one with count 1.
C40_RateLimit ==
  /\ [][ /\ \A ip \in Ips :
              (ip \in DOMAIN rateLimitMap'
                 /\ (ip \notin DOMAIN rateLimitMap \/ rateLimitMap'[ip] # rateLimitMap[ip]))
                => /\ response' # TooManyRequests
                   /\ IF InWindow(ip)
                        THEN /\ rateLimitMap[ip].count < RATE_LIMIT_MAX_REQUESTS
                             /\ rateLimitMap'[ip] =
                                  [rateLimitMap[ip] EXCEPT !.count = @ + 1]
                      ELSE rateLimitMap'[ip] =
                             [count |-> 1, resetTime |-> now + RATE_LIMIT_WINDOW]
         /\ (response' = TooManyRequests /\ response # TooManyRequests)
              => /\ \E ip \in Ips :
                      InWindow(ip) /\ rateLimitMap[ip].count = RATE_LIMIT_MAX_REQUESTS
                 /\ UNCHANGED <<rateLimitMap, otp_verifications, otp_history, inflight>>
         /\ (otp_verifications' # otp_verifications \/ otp_history' # otp_history)
              => rateLimitMap' # rateLimitMap ]_vars
  /\ [](\A ip \in DOMAIN rateLimitMap : rateLimitMap[ip].count \in 1..RATE_LIMIT_MAX_REQUESTS)

\* ip1 was passed on 5 times in its window, which has not ended, and was then
\* answered 429; ip2 is in a window of its own that started later
C40_Witness ==
  /\ InWindow("ip1")
  /\ rateLimitMap["ip1"].count = RATE_LIMIT_MAX_REQUESTS
  /\ response = TooManyRequests
  /\ InWindow("ip2")
  /\ rateLimitMap["ip2"].count = 1
  /\ rateLimitMap["ip2"].resetTime > rateLimitMap["ip1"].resetTime

====
